---- MODULE Spec2Model ----
(***************************************************************************)
(* Model of the Iagon MCP server: the batch upload tools                   *)
(* (iagon_bulk_upload, iagon_upload_directory), the single upload tool,    *)
(* IagonClient.uploadFile, the directory enumeration with its name filter, *)
(* the paginated listing calls (IagonClient.listFiles / searchFiles) and   *)
(* the list and search tools in front of them, the delete and download     *)
(* tools with IagonClient.deleteFile / getFileInfo / downloadFile, and the *)
(* gateway singleton under batch handlers in progress at the same time.    *)
(*                                                                         *)
(* The local file system and the remote service are the environment: each  *)
(* fs call of the program (existsSync, statSync) is one step, and the file *)
(* under examination may change between two such steps.                    *)
(***************************************************************************)
EXTENDS Integers, Sequences, FiniteSets, TLC

VARIABLES
    fs,              \* local file system: path -> [exists, size]
    envToken,        \* process.env.IAGON_ACCESS_TOKEN is set
    clientInstance,  \* the module-level singleton is non-null
    tool,            \* the tool handler that is running
    pc,              \* position of the handler / of uploadFile
    files,           \* the candidates of the batch (file_paths / enumeration)
    idx,             \* index of the candidate the loop is at (1-based)
    result,          \* the handler's BulkOperationResult
    stats,           \* stats.size read by the batch handler for the candidate
    upload,          \* locals of the running uploadFile call
    requests,        \* POST /files/upload requests sent to the remote
    response,        \* what the tool handler returned
    fsChanges,       \* number of environment changes of the file system
    remote,          \* the remote collection behind GET /files
    call,            \* the listFiles / searchFiles call in progress
    page,            \* the PaginatedResponse last returned
    prevPage,        \* the page returned before it in the same walk
    pageCount,       \* pages received in the current walk
    seen,            \* item ids received in the current walk, in order
    params,          \* the arguments of the tool call, as the caller gave them
    enum,            \* a directory enumeration: its arguments and what it returned
    calls,           \* tool calls made in the session
    transfer,        \* the deleteFile / downloadFile call and its local files
    runs,            \* the batch handlers in progress at the same time
    gateway          \* the singleton: the instance and the constructions so far

batchVars == <<fs, envToken, clientInstance, tool, pc, files, idx, result,
               stats, upload, requests, response, fsChanges>>
pageVars == <<remote, call, page, prevPage, pageCount, seen>>
auxVars == <<enum, calls, transfer, runs, gateway>>
vars == <<fs, envToken, clientInstance, tool, pc, files, idx, result,
          stats, upload, requests, response, fsChanges,
          remote, call, page, prevPage, pageCount, seen, params, enum, calls,
          transfer, runs, gateway>>

-----------------------------------------------------------------------------
(* Bounds *)

MaxBatch == 2
MaxFsChanges == 1
\* sizes of the static remote collection: 0..MaxN, and 45
MaxN == 5
\* page sizes asked for: 1..MaxLimit, and 20
MaxLimit == 3
\* first offsets asked for: 0..MaxOffset
MaxOffset == 2
\* items in a page of the unconstrained remote
MaxItems == 2
\* total reported by the unconstrained remote
MaxTotal == 4
\* pages of one walk against the unconstrained remote
MaxPages == 1
\* characters of an arbitrary name pattern
MaxPattern == 2
\* tool calls of a session after the first
MaxCalls == 2

-----------------------------------------------------------------------------
(* constants.ts *)

FILE_SIZE_LIMIT == 40 * 1024 * 1024
DEFAULT_PAGE_LIMIT == 20
MAX_PAGE_LIMIT == 100

Units == <<"Bytes", "KB", "MB", "GB", "TB">>

\* floor(log(bytes) / log(1024)) for 0 < bytes < 2^31
UnitIndex(bytes) ==
    IF bytes < 1024 THEN 0
    ELSE IF bytes < 1024 * 1024 THEN 1
    ELSE IF bytes < 1024 * 1024 * 1024 THEN 2
    ELSE 3

\* (bytes / k^i).toFixed(2) in hundredths, rounded half up
Hundredths(bytes) ==
    LET k == 1024 ^ UnitIndex(bytes)
        whole == bytes \div k
        rest == bytes % k
        frac == (rest * 100 + (k \div 2)) \div k
    IN  whole * 100 + frac

\* parseFloat("w.ff") printed: trailing zeros of the fraction are dropped
DecimalString(h) ==
    LET whole == h \div 100
        frac == h % 100
    IN  IF frac = 0 THEN ToString(whole)
        ELSE IF frac % 10 = 0 THEN ToString(whole) \o "." \o ToString(frac \div 10)
        ELSE IF frac < 10 THEN ToString(whole) \o ".0" \o ToString(frac)
        ELSE ToString(whole) \o "." \o ToString(frac)

formatBytes(bytes) ==
    IF bytes = 0 THEN "0 Bytes"
    ELSE DecimalString(Hundredths(bytes)) \o " " \o Units[UnitIndex(bytes) + 1]

-----------------------------------------------------------------------------
(* The local file system *)

OneMB == 1024 * 1024
FiftyMB == 50 * 1024 * 1024

Paths == {"/data/a.mp4", "/data/big.mp4", "/data/c.mp4", "/data/edge.mp4",
          "/data/sub/over.mp4", "/data/sub/deep/z.mp4"}

Sizes == {OneMB, FILE_SIZE_LIMIT, FILE_SIZE_LIMIT + 1, FiftyMB}

NoFile == [exists |-> FALSE, size |-> 0]
File(n) == [exists |-> TRUE, size |-> n]
FileStates == {NoFile} \cup {File(n) : n \in Sizes}

InitialFs ==
    [p \in Paths |->
        CASE p = "/data/a.mp4" -> NoFile
          [] p = "/data/big.mp4" -> File(FiftyMB)
          [] p = "/data/c.mp4" -> File(OneMB)
          [] p = "/data/edge.mp4" -> File(FILE_SIZE_LIMIT)
          [] p = "/data/sub/over.mp4" -> File(FILE_SIZE_LIMIT + 1)
          [] p = "/data/sub/deep/z.mp4" -> File(OneMB)]

\* path.basename
basename(p) ==
    CASE p = "/data/a.mp4" -> "a.mp4"
      [] p = "/data/big.mp4" -> "big.mp4"
      [] p = "/data/c.mp4" -> "c.mp4"
      [] p = "/data/edge.mp4" -> "edge.mp4"
      [] p = "/data/sub/over.mp4" -> "over.mp4"
      [] p = "/data/sub/deep/z.mp4" -> "z.mp4"
      [] p = "/data/sub" -> "sub"
      [] p = "/downloads/v.mp4" -> "v.mp4"
      [] p = "/new/v.mp4" -> "v.mp4"
      [] p = "/forbidden/x/v.mp4" -> "v.mp4"
      [] p = "/" -> ""
      [] OTHER -> p

\* fs.readdirSync(dir, {withFileTypes: true}) and path.join(dir, entry.name);
\* an entry is a directory, a regular file, or something else (a socket)
Directories == {"/data", "/data/sub", "/data/sub/deep", "/empty"}

readdirSync(dir) ==
    CASE dir = "/data" ->
            <<[name |-> "a.mp4", kind |-> "file", path |-> "/data/a.mp4"],
              [name |-> "big.mp4", kind |-> "file", path |-> "/data/big.mp4"],
              [name |-> "c.mp4", kind |-> "file", path |-> "/data/c.mp4"],
              [name |-> "edge.mp4", kind |-> "file", path |-> "/data/edge.mp4"],
              [name |-> "sub", kind |-> "dir", path |-> "/data/sub"]>>
      [] dir = "/data/sub" ->
            <<[name |-> "deep", kind |-> "dir", path |-> "/data/sub/deep"],
              [name |-> "over.mp4", kind |-> "file", path |-> "/data/sub/over.mp4"],
              [name |-> "sock.mp4", kind |-> "other", path |-> "/data/sub/sock.mp4"]>>
      [] dir = "/data/sub/deep" ->
            <<[name |-> "z.mp4", kind |-> "file", path |-> "/data/sub/deep/z.mp4"]>>
      [] OTHER -> <<>>

\* st_size of a directory
DirectorySize == 4096

\* fs.existsSync(p): true for a directory as for a file
existsSync(p, f) == p \in Directories \/ (p \in Paths /\ f[p].exists)

\* fs.statSync(p) (exists FALSE: it throws ENOENT); a directory has a size too
statSync(p, f) ==
    IF p \in Directories THEN File(DirectorySize)
    ELSE IF p \in Paths THEN f[p]
    ELSE NoFile

\* the characters of a name
Chars(name) ==
    CASE name = "a.mp4" -> <<"a", ".", "m", "p", "4">>
      [] name = "big.mp4" -> <<"b", "i", "g", ".", "m", "p", "4">>
      [] name = "c.mp4" -> <<"c", ".", "m", "p", "4">>
      [] name = "edge.mp4" -> <<"e", "d", "g", "e", ".", "m", "p", "4">>
      [] name = "over.mp4" -> <<"o", "v", "e", "r", ".", "m", "p", "4">>
      [] name = "sock.mp4" -> <<"s", "o", "c", "k", ".", "m", "p", "4">>
      [] name = "z.mp4" -> <<"z", ".", "m", "p", "4">>
      [] name = "sub" -> <<"s", "u", "b">>
      [] name = "deep" -> <<"d", "e", "e", "p">>

-----------------------------------------------------------------------------
(* The name filter of getFilesFromDirectory: a pattern and a name are       *)
(* sequences of characters; the pattern "" (or none) is the empty sequence. *)

RECURSIVE ReplaceAll(_, _, _)
\* s.replace(/c/g, by) for a one-character c
ReplaceAll(s, c, by) ==
    IF s = <<>> THEN <<>>
    ELSE (IF Head(s) = c THEN by ELSE <<Head(s)>>) \o ReplaceAll(Tail(s), c, by)

\* pattern.replace(/\*/g, ".*").replace(/\?/g, ".")
RegexSource(pattern) == ReplaceAll(ReplaceAll(pattern, "*", <<".", "*">>), "?", <<".">>)

RECURSIVE RegexAtoms(_)
\* new RegExp(source): a sequence of atoms, each a character or the dot, each
\* starred or not (source holds letters, digits, dots, and stars after a dot)
RegexAtoms(source) ==
    IF source = <<>> THEN <<>>
    ELSE IF Len(source) >= 2 /\ source[2] = "*"
         THEN <<[ch |-> source[1], star |-> TRUE]>>
                  \o RegexAtoms(SubSeq(source, 3, Len(source)))
         ELSE <<[ch |-> source[1], star |-> FALSE]>> \o RegexAtoms(Tail(source))

\* case folding of the "i" flag
Lower(c) ==
    CASE c = "M" -> "m"
      [] c = "P" -> "p"
      [] c = "C" -> "c"
      [] OTHER -> c

\* an atom's character against a character of the name: the dot matches any
AtomMatches(ch, x) == ch = "." \/ Lower(ch) = Lower(x)

RECURSIVE MatchHere(_, _)
\* the atoms match a prefix of s
MatchHere(atoms, s) ==
    IF atoms = <<>> THEN TRUE
    ELSE LET a == Head(atoms)
         IN  IF a.star
             THEN \E k \in 0..Len(s) :
                    /\ \A i \in 1..k : AtomMatches(a.ch, s[i])
                    /\ MatchHere(Tail(atoms), SubSeq(s, k + 1, Len(s)))
             ELSE /\ s # <<>>
                  /\ AtomMatches(a.ch, Head(s))
                  /\ MatchHere(Tail(atoms), Tail(s))

\* regex.test(name): the regex has no anchors, so a match may start anywhere
RegexTest(atoms, name) ==
    \E i \in 1..(Len(name) + 1) : MatchHere(atoms, SubSeq(name, i, Len(name)))

\* if (pattern) { if (!regex.test(entry.name)) continue; } files.push(fullPath)
NameAccepted(pattern, name) ==
    pattern # <<>> => RegexTest(RegexAtoms(RegexSource(pattern)), name)

NoPattern == <<>>

RECURSIVE EntriesFiles_AlwaysDescend(_, _, _, _)
\* the loop descending into every subdirectory, whatever the flag
EntriesFiles_AlwaysDescend(entries, recursive, pattern, f) ==
    IF entries = <<>> THEN <<>>
    ELSE LET entry == Head(entries)
             here == IF entry.kind = "dir"
                     THEN EntriesFiles_AlwaysDescend(readdirSync(entry.path),
                                                     recursive, pattern, f)
                     ELSE IF entry.kind = "file" /\ f[entry.path].exists
                               /\ NameAccepted(pattern, Chars(entry.name))
                     THEN <<entry.path>>
                     ELSE <<>>
         IN  here \o EntriesFiles_AlwaysDescend(Tail(entries), recursive, pattern, f)

RECURSIVE EntriesFiles(_, _, _, _)
\* getFilesFromDirectory: the loop over the entries
EntriesFiles(entries, recursive, pattern, f) ==
    IF entries = <<>> THEN <<>>
    ELSE LET entry == Head(entries)
             here == IF entry.kind = "dir"
                     THEN (IF recursive
                           THEN EntriesFiles(readdirSync(entry.path), recursive,
                                             pattern, f)
                           ELSE <<>>)
                     ELSE IF entry.kind = "file" /\ f[entry.path].exists
                               /\ NameAccepted(pattern, Chars(entry.name))
                     THEN <<entry.path>>
                     ELSE <<>>
         IN  here \o EntriesFiles(Tail(entries), recursive, pattern, f)

getFilesFromDirectory(dirPath, recursive, pattern, f) ==
    IF dirPath \notin Directories THEN <<>>
    ELSE EntriesFiles(readdirSync(dirPath), recursive, pattern, f)

\* new RegExp(source, "i") throws a SyntaxError on a group that is not closed
RegExpThrows(source) == \E i \in 1..Len(source) : source[i] = "("

RECURSIVE EntriesThrow(_, _, _, _)
\* the loop over the entries throws: the RegExp is built for each regular
\* file met, when a pattern is given, and for nothing else
EntriesThrow(entries, recursive, pattern, f) ==
    IF entries = <<>> THEN FALSE
    ELSE LET entry == Head(entries)
             here == IF entry.kind = "dir"
                     THEN recursive /\ EntriesThrow(readdirSync(entry.path),
                                                    recursive, pattern, f)
                     ELSE /\ entry.kind = "file" /\ f[entry.path].exists
                          /\ pattern # <<>>
                          /\ RegExpThrows(RegexSource(pattern))
         IN  here \/ EntriesThrow(Tail(entries), recursive, pattern, f)

\* the SyntaxError's message
InvalidRegExpMessage(pattern) ==
    <<"Invalid", "regular", "expression", ":", "Unterminated", "group">>

-----------------------------------------------------------------------------
(* Messages: a message is the sequence of its words; an interpolated value *)
(* (a path, a file name, a formatted size, a status) is one word.          *)

Contains(msg, w) == \E i \in 1..Len(msg) : msg[i] = w

BatchNotFoundMessage == <<"File", "not", "found">>
BatchSkipMessage(size) ==
    <<"Exceeds", "40MB", "limit", "(", formatBytes(size), ")">>
BatchUploadedMessage(size) == <<"Uploaded", "(", formatBytes(size), ")">>

UploadNotFoundMessage(localPath) == <<"File", "not", "found", ":", localPath>>
UploadTooLargeMessage(fileName, size) ==
    <<"File", fileName, "(", formatBytes(size), ")", "exceeds", "Iagon's",
      "40MB", "limit", ".", "Consider", "compressing", "the", "video", "or",
      "splitting", "it", "into", "smaller", "segments", ".">>
UploadSuccessMessage(fileName, size) ==
    <<"Successfully", "uploaded", fileName, "(", formatBytes(size), ")">>

-----------------------------------------------------------------------------
(* IagonClient.handleError *)

HttpError(status, dataMessage) ==
    [axios |-> TRUE, hasResponse |-> TRUE, status |-> status,
     dataMessage |-> dataMessage, code |-> "", message |-> <<"Request", "failed">>]
CodeError(code) ==
    [axios |-> TRUE, hasResponse |-> FALSE, status |-> 0,
     dataMessage |-> <<>>, code |-> code, message |-> <<code>>]
PlainError(message) ==
    [axios |-> FALSE, hasResponse |-> FALSE, status |-> 0,
     dataMessage |-> <<>>, code |-> "", message |-> message]

UnexpectedMessage(error) == <<"Unexpected", "error", ":">> \o error.message

\* the catch block reporting every error without classifying it
handleError_Unclassified(error) == UnexpectedMessage(error)

handleError(error) ==
    IF error.axios /\ error.hasResponse THEN
        CASE error.status = 401 ->
                <<"Authentication", "failed", ".", "Please", "check", "your",
                  "IAGON_ACCESS_TOKEN", "is", "valid", ".", "Generate", "a",
                  "new", "one", "at", "https://app.iagon.com", "Settings", ".">>
          [] error.status = 403 ->
                <<"Permission", "denied", ".", "You", "don't", "have", "access",
                  "to", "this", "resource", ".">>
          [] error.status = 404 ->
                <<"Resource", "not", "found", ".", "Please", "check", "the",
                  "file/folder", "ID", "is", "correct", ".">>
          [] error.status = 413 ->
                <<"File", "too", "large", ".", "Iagon", "has", "a", "40MB",
                  "limit", "per", "file", "for", "sharding", ".">>
          [] error.status = 429 ->
                <<"Rate", "limit", "exceeded", ".", "Please", "wait", "before",
                  "making", "more", "requests", ".">>
          [] error.status = 500 ->
                <<"Iagon", "server", "error", ".", "Please", "try", "again",
                  "later", ".">>
          [] OTHER ->
                IF error.dataMessage # <<>> THEN error.dataMessage
                ELSE <<"API", "request", "failed", "with", "status",
                       ToString(error.status)>>
    ELSE IF error.axios /\ error.code = "ECONNABORTED" THEN
        <<"Request", "timed", "out", ".", "The", "file", "may", "be", "too",
          "large", "or", "the", "network", "is", "slow", ".">>
    ELSE IF error.axios /\ error.code = "ENOTFOUND" THEN
        <<"Cannot", "connect", "to", "Iagon", "servers", ".", "Please", "check",
          "your", "internet", "connection", ".">>
    ELSE UnexpectedMessage(error)

-----------------------------------------------------------------------------
(* Answers of the remote to POST /files/upload *)

UploadOk(id, fileId) == [ok |-> TRUE, id |-> id, fileId |-> fileId, error |-> PlainError(<<>>)]
UploadFail(error) == [ok |-> FALSE, id |-> "", fileId |-> "", error |-> error]

UploadAnswers ==
    {UploadOk("r1", ""), UploadOk("", "r2"),
     UploadFail(HttpError(413, <<>>)), UploadFail(HttpError(429, <<>>)),
     UploadFail(CodeError("ECONNABORTED"))}

\* the read stream of a directory fails with EISDIR and the POST is rejected
\* with that error
ReadError ==
    [axios |-> TRUE, hasResponse |-> FALSE, status |-> 0, dataMessage |-> <<>>,
     code |-> "EISDIR",
     message |-> <<"EISDIR", ":", "illegal", "operation", "on", "a",
                   "directory", ",", "read">>]

\* what the POST for localPath can settle with
PostAnswers(localPath) ==
    IF localPath \in Directories THEN {UploadFail(ReadError)} ELSE UploadAnswers

-----------------------------------------------------------------------------
(* Handler state *)

NoResult == [total |-> 0, successful |-> 0, failed |-> 0, skipped |-> 0,
             results |-> <<>>]
\* uploadFile's locals; answer is what client.post settled with
NoAnswer == [ok |-> FALSE, id |-> "", fileId |-> "", error |-> PlainError(<<>>)]
NoUpload == [localPath |-> "", remotePath |-> "", fileName |-> "", size |-> 0,
             answer |-> NoAnswer]
NoResponse == [kind |-> "none", isError |-> FALSE, summary |-> NoResult,
               text |-> <<>>]

BatchTools == {"iagon_bulk_upload", "iagon_upload_directory"}

\* a JSON number of the tool arguments: left out, an integer, or value + 1/2
Omitted == [given |-> FALSE, int |-> TRUE, value |-> 0]
Num(v) == [given |-> TRUE, int |-> TRUE, value |-> v]
Fraction(v) == [given |-> TRUE, int |-> FALSE, value |-> v]

\* the arguments the model follows (folder_id "" when it is left out)
NoParams == [folder_id |-> "", limit |-> Omitted, offset |-> Omitted]
FolderIds == {"", "folder-1"}

\* the locals of a deleteFile / downloadFile call, the response stream, the
\* write stream and the local directories and file they act on; answer is
\* what the last request settled with
NoTransfer ==
    [op |-> "none", fileId |-> "", localPath |-> "", info |-> "none",
     fileName |-> "", sent |-> <<>>, stream |-> "none", writer |-> "none",
     emitted |-> 0, chunks |-> 0, fileSize |-> 0, buffered |-> 0, written |-> -1,
     made |-> {}, promise |-> "none", answer |-> NoAnswer,
     result |-> [success |-> FALSE, fileName |-> "", fileSize |-> 0,
                 message |-> <<>>]]

\* the handlers that can be in progress at the same time, and the locals of one
RunIds == {1, 2}
NoRun == [tool |-> "none", pc |-> "idle", files |-> <<>>, idx |-> 0,
          result |-> NoResult, stats |-> 0, upload |-> NoUpload,
          response |-> NoResponse, client |-> 0, answers |-> <<>>]

\* clientInstance: the instance held (0 for null), and the constructor calls
\* that returned and that were made
NoGateway == [instance |-> 0, constructed |-> 0, attempts |-> 0, started |-> 0,
              envChanges |-> 0]

NoEnum == [done |-> FALSE, op |-> "none", dir |-> "", recursive |-> FALSE,
           pattern |-> <<>>, name |-> <<>>, accepted |-> FALSE, found |-> <<>>]

\* the entry pushed on result.results (fileId "" when the entry has none)
Outcome(path, status, message, fileId) ==
    [path |-> path, status |-> status, message |-> message, fileId |-> fileId]

\* Record with the push forgotten on the skip branch
Record_SkipNotPushed(r, entry) ==
    [r EXCEPT !.successful = IF entry.status = "success" THEN @ + 1 ELSE @,
              !.failed = IF entry.status = "failed" THEN @ + 1 ELSE @,
              !.skipped = IF entry.status = "skipped" THEN @ + 1 ELSE @,
              !.results = IF entry.status = "skipped" THEN @ ELSE Append(@, entry)]

\* result.<counter>++ ; result.results.push(entry)
Record(r, entry) ==
    [r EXCEPT !.successful = IF entry.status = "success" THEN @ + 1 ELSE @,
              !.failed = IF entry.status = "failed" THEN @ + 1 ELSE @,
              !.skipped = IF entry.status = "skipped" THEN @ + 1 ELSE @,
              !.results = Append(@, entry)]

\* first step of the loop body of each batch tool
LoopEntry == IF tool = "iagon_bulk_upload" THEN "b_exists" ELSE "d_stat"

\* the for-of loop moves to the next candidate, or the handler returns the
\* rendering of the result
NextCandidate(r) ==
    /\ result' = r
    /\ idx' = idx + 1
    /\ IF idx = Len(files)
       THEN /\ pc' = "done"
            /\ response' = [kind |-> "summary", isError |-> FALSE,
                            summary |-> r, text |-> <<>>]
       ELSE /\ pc' = LoopEntry
            /\ response' = response

\* the handler's catch block: the tool call returns an error result
Caught(message) ==
    /\ pc' = "done"
    /\ response' = [kind |-> "error", isError |-> TRUE, summary |-> NoResult,
                    text |-> <<"Error", ":">> \o message]

EnoentMessage(path) == <<"ENOENT", ":", "no", "such", "file", "or", "directory", ",", "stat", path>>
TokenRequiredMessage == <<"IAGON_ACCESS_TOKEN", "is", "required", ".">>

\* a constructor that does not look at the token
ClientAvailable_NoCheck == TRUE

\* getIagonClient(): the constructor throws when no token is configured
ClientAvailable == clientInstance \/ envToken

-----------------------------------------------------------------------------
(* iagon_bulk_upload *)

\* file_paths: every list of at most MaxBatch paths, and the list of the
\* three-path scenario (a missing file, a 50MB file, a 1MB file)
ScenarioPaths == <<"/data/a.mp4", "/data/big.mp4", "/data/c.mp4">>
\* file_paths name files, and a directory
BulkPaths == {"/data/a.mp4", "/data/big.mp4", "/data/c.mp4", "/data/sub"}
BatchLists == UNION {[1..n -> BulkPaths] : n \in 1..MaxBatch} \cup {ScenarioPaths}

\* the arguments of a bulk upload: every list without a folder id, and the
\* one-path lists and the scenario with one
BulkInputs ==
    {[file_paths |-> q, folder_id |-> ""] : q \in BatchLists}
        \cup {[file_paths |-> q, folder_id |-> "folder-1"] :
                    q \in {<<p>> : p \in BulkPaths} \cup {ScenarioPaths}}

BulkUploadStart(paths, folder_id) ==
    /\ pc = "idle"
    /\ tool' = "iagon_bulk_upload"
    /\ clientInstance' = ClientAvailable
    /\ IF ~ClientAvailable
       THEN /\ Caught(TokenRequiredMessage)
            /\ UNCHANGED <<files, idx, result>>
       ELSE /\ result' = [NoResult EXCEPT !.total = Len(paths)]
            /\ files' = paths
            /\ idx' = 1
            /\ pc' = "b_exists"
            /\ response' = response
    /\ UNCHANGED <<fs, envToken, stats, upload, requests, fsChanges>>
    /\ params' = [NoParams EXCEPT !.folder_id = folder_id]
    /\ UNCHANGED <<pageVars, auxVars>>

\* the loop body without the existence check
BulkExists_NoCheck ==
    /\ pc = "b_exists"
    /\ pc' = "b_stat"
    /\ UNCHANGED <<result, idx, response>>
    /\ UNCHANGED <<fs, envToken, clientInstance, tool, files, stats, upload,
                   requests, fsChanges>>
    /\ UNCHANGED <<pageVars, auxVars, params>>

\* if (!fs.existsSync(filePath)) { failed, "File not found"; continue }
BulkExists ==
    /\ pc = "b_exists"
    /\ IF ~existsSync(files[idx], fs)
       THEN NextCandidate(Record(result,
                Outcome(files[idx], "failed", BatchNotFoundMessage, "")))
       ELSE /\ pc' = "b_stat"
            /\ UNCHANGED <<result, idx, response>>
    /\ UNCHANGED <<fs, envToken, clientInstance, tool, files, stats, upload,
                   requests, fsChanges>>
    /\ UNCHANGED <<pageVars, auxVars, params>>

\* the size test with >= for >
OverLimit_AtLimit(size) == size >= FILE_SIZE_LIMIT

\* the size test of both batch loops
OverLimit(size) == size > FILE_SIZE_LIMIT

\* const stats = fs.statSync(filePath); size check; await client.uploadFile
BatchStat(at) ==
    /\ pc = at
    /\ LET path == files[idx]
           st == statSync(path, fs)
       IN  IF ~st.exists
           THEN /\ Caught(EnoentMessage(path))
                /\ UNCHANGED <<result, idx, stats, upload>>
           ELSE IF OverLimit(st.size)
           THEN /\ NextCandidate(Record(result,
                        Outcome(path, "skipped", BatchSkipMessage(st.size), "")))
                /\ UNCHANGED <<stats, upload>>
           ELSE /\ stats' = st.size
                /\ upload' = [NoUpload EXCEPT !.localPath = path]
                /\ pc' = "u_exists"
                /\ UNCHANGED <<result, idx, response>>
    /\ UNCHANGED <<fs, envToken, clientInstance, tool, files, requests, fsChanges>>
    /\ UNCHANGED <<pageVars, auxVars, params>>

BulkStat == BatchStat("b_stat")

-----------------------------------------------------------------------------
(* iagon_upload_directory *)

DirectoryInputs == {"/data", "/data/sub", "/empty", "/missing", "/data/c.mp4"}

\* include_pattern: none, "e*", or "(" which is no regular expression
DirectoryPatterns == {NoPattern, <<"e", "*">>, <<"(">>}
PatternText(pattern) ==
    IF pattern = <<"e", "*">> THEN "e*" ELSE IF pattern = <<"(">> THEN "(" ELSE ""

UploadDirectoryStart(dir, recursive, pattern, folder_id) ==
    /\ pc = "idle"
    /\ tool' = "iagon_upload_directory"
    /\ LET found == getFilesFromDirectory(dir, recursive, pattern, fs)
       IN  IF ~existsSync(dir, fs)
           THEN /\ pc' = "done"
                /\ response' = [kind |-> "error", isError |-> TRUE,
                                summary |-> NoResult,
                                text |-> <<"Directory", "not", "found", ":", dir>>]
                /\ UNCHANGED <<clientInstance, files, idx, result>>
           ELSE IF dir \notin Directories
           THEN /\ pc' = "done"
                /\ response' = [kind |-> "error", isError |-> TRUE,
                                summary |-> NoResult,
                                text |-> <<"Path", "is", "not", "a", "directory", ":", dir>>]
                /\ UNCHANGED <<clientInstance, files, idx, result>>
           ELSE IF EntriesThrow(readdirSync(dir), recursive, pattern, fs)
           THEN /\ Caught(InvalidRegExpMessage(pattern))
                /\ UNCHANGED <<clientInstance, files, idx, result>>
           ELSE IF Len(found) = 0
           THEN /\ pc' = "done"
                /\ response' = [kind |-> "note", isError |-> FALSE,
                                summary |-> NoResult,
                                text |-> <<"No", "files", "found", "in", dir>>
                                    \o (IF pattern # NoPattern
                                        THEN <<"matching", "pattern",
                                               PatternText(pattern)>>
                                        ELSE <<>>)]
                /\ UNCHANGED <<clientInstance, files, idx, result>>
           ELSE /\ clientInstance' = ClientAvailable
                /\ IF ~ClientAvailable
                   THEN /\ Caught(TokenRequiredMessage)
                        /\ UNCHANGED <<files, idx, result>>
                   ELSE /\ result' = [NoResult EXCEPT !.total = Len(found)]
                        /\ files' = found
                        /\ idx' = 1
                        /\ pc' = "d_stat"
                        /\ response' = response
    /\ UNCHANGED <<fs, envToken, stats, upload, requests, fsChanges>>
    /\ params' = [NoParams EXCEPT !.folder_id = folder_id]
    /\ UNCHANGED <<pageVars, auxVars>>

DirStat == BatchStat("d_stat")

-----------------------------------------------------------------------------
(* iagon_upload_file *)

RemoteNames == {"", "final.mp4"}

UploadFileStart(localPath, remotePath, folder_id) ==
    /\ pc = "idle"
    /\ tool' = "iagon_upload_file"
    /\ clientInstance' = ClientAvailable
    /\ IF ~ClientAvailable
       THEN /\ Caught(TokenRequiredMessage)
            /\ upload' = upload
       ELSE /\ upload' = [NoUpload EXCEPT !.localPath = localPath,
                                          !.remotePath = remotePath]
            /\ pc' = "u_exists"
            /\ response' = response
    /\ UNCHANGED <<fs, envToken, files, idx, result, stats, requests, fsChanges>>
    /\ params' = [NoParams EXCEPT !.folder_id = folder_id]
    /\ UNCHANGED <<pageVars, auxVars>>

-----------------------------------------------------------------------------
(* IagonClient.uploadFile, and the handler's code after the await *)

UploadResult(success, fileId, fileName, fileSize, message) ==
    [success |-> success, fileId |-> fileId, fileName |-> fileName,
     fileSize |-> fileSize, message |-> message]

\* the failure branch replacing the gateway's message by its own
BatchOutcome_OwnMessage(path, size, uploadResult) ==
    IF uploadResult.success
    THEN Outcome(path, "success", BatchUploadedMessage(size), uploadResult.fileId)
    ELSE Outcome(path, "failed", <<"Upload", "failed">>, "")

\* the batch loops' if (uploadResult.success) { ... } else { ... }
BatchOutcome(path, size, uploadResult) ==
    IF uploadResult.success
    THEN Outcome(path, "success", BatchUploadedMessage(size), uploadResult.fileId)
    ELSE Outcome(path, "failed", uploadResult.message, "")

\* the text of iagon_upload_file's result
UploadFileText(r) ==
    IF r.success
    THEN <<"**Upload Successful**", "File", ":", r.fileName, "Size", ":",
           formatBytes(r.fileSize), "ID", ":", r.fileId>>
    ELSE <<"**Upload Failed**">> \o r.message

\* uploadFile's promise resolves with uploadResult and the awaiting handler
\* goes on
Resolved(uploadResult) ==
    IF tool \in BatchTools
    THEN NextCandidate(Record(result,
                              BatchOutcome(files[idx], stats, uploadResult)))
    ELSE /\ pc' = "done"
         /\ response' = [kind |-> "upload", isError |-> ~uploadResult.success,
                         summary |-> NoResult, text |-> UploadFileText(uploadResult)]
         /\ UNCHANGED <<result, idx>>

\* if (!fs.existsSync(localPath)) return { success: false, ... }
UploadFileExists ==
    /\ pc = "u_exists"
    /\ IF ~existsSync(upload.localPath, fs)
       THEN Resolved(UploadResult(FALSE, "", basename(upload.localPath), 0,
                                  UploadNotFoundMessage(upload.localPath)))
       ELSE /\ pc' = "u_stat"
            /\ UNCHANGED <<result, idx, response>>
    /\ UNCHANGED <<fs, envToken, clientInstance, tool, files, stats, upload,
                   requests, fsChanges>>
    /\ UNCHANGED <<pageVars, auxVars, params>>

\* uploadFile without its size test
TooLarge_Never(size) == FALSE

\* uploadFile's size test
TooLarge(size) == size > FILE_SIZE_LIMIT

\* statSync, the size check, and the POST /files/upload being sent; the form
\* holds the file and fileName, and no folder id (folderId "")
UploadFileStat ==
    /\ pc = "u_stat"
    /\ LET st == statSync(upload.localPath, fs)
           fileName == IF upload.remotePath # "" THEN upload.remotePath
                       ELSE basename(upload.localPath)
       IN  IF ~st.exists
           THEN /\ Caught(EnoentMessage(upload.localPath))
                /\ UNCHANGED <<result, idx, upload, requests>>
           ELSE IF TooLarge(st.size)
           THEN /\ Resolved(UploadResult(FALSE, "", fileName, st.size,
                                         UploadTooLargeMessage(fileName, st.size)))
                /\ UNCHANGED <<upload, requests>>
           ELSE /\ upload' = [upload EXCEPT !.fileName = fileName, !.size = st.size]
                /\ requests' = Append(requests,
                                      [path |-> upload.localPath,
                                       fileName |-> fileName, size |-> st.size,
                                       folderId |-> ""])
                /\ pc' = "u_wait"
                /\ UNCHANGED <<result, idx, response>>
    /\ UNCHANGED <<fs, envToken, clientInstance, tool, files, stats, fsChanges>>
    /\ UNCHANGED <<pageVars, auxVars, params>>

\* the POST sent once more after its first failure
UploadFileSettle_Retry(answer) ==
    /\ pc = "u_wait"
    /\ IF ~answer.ok /\ upload.answer = NoAnswer
       THEN /\ requests' = Append(requests, requests[Len(requests)])
            /\ UNCHANGED <<pc, result, idx, response>>
       ELSE /\ requests' = requests
            /\ IF answer.ok
               THEN Resolved(UploadResult(TRUE,
                                IF answer.id # "" THEN answer.id ELSE answer.fileId,
                                upload.fileName, upload.size,
                                UploadSuccessMessage(upload.fileName, upload.size)))
               ELSE Resolved(UploadResult(FALSE, "", upload.fileName, upload.size,
                                          handleError(answer.error)))
    /\ upload' = [upload EXCEPT !.answer = answer]
    /\ UNCHANGED <<fs, envToken, clientInstance, tool, files, stats, fsChanges>>
    /\ UNCHANGED <<pageVars, auxVars, params>>

\* the POST settles: return { success: true, ... } or the catch block
UploadFileSettle(answer) ==
    /\ pc = "u_wait"
    /\ IF answer.ok
       THEN Resolved(UploadResult(TRUE,
                                  IF answer.id # "" THEN answer.id ELSE answer.fileId,
                                  upload.fileName, upload.size,
                                  UploadSuccessMessage(upload.fileName, upload.size)))
       ELSE Resolved(UploadResult(FALSE, "", upload.fileName, upload.size,
                                  handleError(answer.error)))
    /\ upload' = [upload EXCEPT !.answer = answer]
    /\ UNCHANGED <<fs, envToken, clientInstance, tool, files, stats,
                   requests, fsChanges>>
    /\ UNCHANGED <<pageVars, auxVars, params>>

-----------------------------------------------------------------------------
(* Environment: another process changes the file the program is examining *)

CurrentPath == IF pc \in {"b_exists", "b_stat", "d_stat"} THEN files[idx]
               ELSE upload.localPath

FsChange(st) ==
    /\ pc \in {"b_exists", "b_stat", "d_stat", "u_exists", "u_stat"}
    /\ fsChanges < MaxFsChanges
    /\ CurrentPath \in Paths
    /\ st # fs[CurrentPath]
    /\ fs' = [fs EXCEPT ![CurrentPath] = st]
    /\ fsChanges' = fsChanges + 1
    /\ UNCHANGED <<envToken, clientInstance, tool, pc, files, idx, result,
                   stats, upload, requests, response>>
    /\ UNCHANGED <<pageVars, auxVars, params>>

-----------------------------------------------------------------------------
(* Specification of the upload tools *)

Undefined == [defined |-> FALSE, value |-> 0]
Defined(v) == [defined |-> TRUE, value |-> v]

NoCall == [op |-> "none", limit |-> 0, offset |-> 0, pending |-> FALSE,
           failed |-> FALSE, first |-> 0, otherLimit |-> 0]
NoPage == [items |-> <<>>, total |-> 0, count |-> 0, offset |-> 0,
           hasMore |-> FALSE, nextOffset |-> Undefined]

PageIdle ==
    /\ remote = [static |-> FALSE, n |-> 0]
    /\ call = NoCall
    /\ page = NoPage
    /\ prevPage = NoPage
    /\ pageCount = 0
    /\ seen = <<>>

Init ==
    /\ fs = InitialFs
    /\ envToken \in BOOLEAN
    /\ clientInstance = FALSE
    /\ tool = "none"
    /\ pc = "idle"
    /\ files = <<>>
    /\ idx = 0
    /\ result = NoResult
    /\ stats = 0
    /\ upload = NoUpload
    /\ requests = <<>>
    /\ response = NoResponse
    /\ fsChanges = 0
    /\ PageIdle
    /\ params = NoParams
    /\ enum = NoEnum
    /\ calls = 0
    /\ transfer = NoTransfer
    /\ runs = [r \in RunIds |-> NoRun]
    /\ gateway = NoGateway

Next ==
    \/ \E input \in BulkInputs :
            BulkUploadStart(input.file_paths, input.folder_id)
    \/ BulkExists
    \/ BulkStat
    \/ \E dir \in DirectoryInputs, recursive \in BOOLEAN,
          pattern \in DirectoryPatterns, folder_id \in FolderIds :
            UploadDirectoryStart(dir, recursive, pattern, folder_id)
    \/ DirStat
    \/ \E localPath \in Paths, remotePath \in RemoteNames, folder_id \in FolderIds :
            UploadFileStart(localPath, remotePath, folder_id)
    \/ UploadFileExists
    \/ UploadFileStat
    \/ \E answer \in PostAnswers(upload.localPath) : UploadFileSettle(answer)
    \/ \E st \in FileStates : FsChange(st)

Spec == Init /\ [][Next]_vars

-----------------------------------------------------------------------------
(* Specification of a session: tool calls one after the other in one server  *)
(* process, on a file system that does not change.  The singleton and the    *)
(* requests sent live as long as the process.                                *)

\* the handler has returned and the server takes the next tool call
NextCall ==
    /\ pc = "done"
    /\ calls < MaxCalls
    /\ calls' = calls + 1
    /\ pc' = "idle"
    /\ tool' = "none"
    /\ files' = <<>>
    /\ idx' = 0
    /\ result' = NoResult
    /\ stats' = 0
    /\ upload' = NoUpload
    /\ response' = NoResponse
    /\ params' = NoParams
    /\ UNCHANGED <<fs, envToken, clientInstance, requests, fsChanges>>
    /\ UNCHANGED <<pageVars, enum, transfer, runs, gateway>>

SessionLists == {<<p>> : p \in BulkPaths}
SessionDirectories == {"/data/sub", "/empty", "/missing"}

SessionNext ==
    \/ \E paths \in SessionLists : BulkUploadStart(paths, "")
    \/ BulkExists
    \/ BulkStat
    \/ \E dir \in SessionDirectories, recursive \in BOOLEAN :
            UploadDirectoryStart(dir, recursive, NoPattern, "")
    \/ DirStat
    \/ \E localPath \in Paths : UploadFileStart(localPath, "", "")
    \/ UploadFileExists
    \/ UploadFileStat
    \/ \E answer \in PostAnswers(upload.localPath) : UploadFileSettle(answer)
    \/ NextCall

SessionSpec == Init /\ [][SessionNext]_vars

-----------------------------------------------------------------------------
(* Specification of the directory enumeration on its own *)

PatternChars == {"*", "?", ".", "m", "4"}
Patterns ==
    UNION {[1..n -> PatternChars] : n \in 0..MaxPattern}
        \cup {<<"*", ".", "m", "p", "4">>, <<"c", "l", "i", "p", "*">>,
              <<"e", "*">>, <<"s", "u", "b">>, <<"?", ".", "m", "p", "4">>}

TestNames ==
    {<<"c", "l", "i", "p", ".", "M", "P", "4">>,
     <<"c", "l", "i", "p", ".", "m", "p", "4", "x">>,
     <<"c", "l", "i", "p", ".", "m", "p", "4">>,
     <<"a", "m", "p", "4">>,
     <<"m", "4">>,
     <<"4">>,
     <<".", "m">>}

\* the filter applied to one entry name
TestName(pattern, name) ==
    /\ ~enum.done
    /\ enum' = [NoEnum EXCEPT !.done = TRUE, !.op = "test", !.pattern = pattern,
                              !.name = name,
                              !.accepted = NameAccepted(pattern, name)]
    /\ UNCHANGED <<batchVars, pageVars, params, calls, transfer, runs, gateway>>

\* getFilesFromDirectory(dir, recursive, pattern)
Enumerate(dir, recursive, pattern) ==
    /\ ~enum.done
    /\ enum' = [NoEnum EXCEPT !.done = TRUE, !.op = "list", !.dir = dir,
                              !.recursive = recursive, !.pattern = pattern,
                              !.found = getFilesFromDirectory(dir, recursive,
                                                              pattern, fs)]
    /\ UNCHANGED <<batchVars, pageVars, params, calls, transfer, runs, gateway>>

EnumNext ==
    \/ \E pattern \in Patterns, name \in TestNames : TestName(pattern, name)
    \/ \E dir \in Directories \cup {"/missing"}, recursive \in BOOLEAN,
          pattern \in Patterns : Enumerate(dir, recursive, pattern)

EnumSpec == Init /\ [][EnumNext]_vars

-----------------------------------------------------------------------------
(* Properties of the batch tools *)

Last(q) == q[Len(q)]
Pushed == Len(result'.results) = Len(result.results) + 1
InBatch == tool \in BatchTools
Returned == response.kind = "summary"

\* C1: the summary a batch run returns has total = successful + failed +
\* skipped = number of outcomes = number of input candidates, and the i-th
\* outcome carries the path of the i-th candidate.
C1_SummaryCoversInput ==
    Returned =>
        LET r == response.summary
        IN  /\ r.total = r.successful + r.failed + r.skipped
            /\ r.total = Len(r.results)
            /\ r.total = Len(files)
            /\ \A i \in 1..Len(files) : r.results[i].path = files[i]

\* C1 witness: a bulk run over a list naming the same path twice returned,
\* and the two outcomes of that path differ.
C1_Witness ==
    /\ Returned
    /\ tool = "iagon_bulk_upload"
    /\ Len(files) = 2
    /\ files[1] = files[2]
    /\ response.summary.results[1].status # response.summary.results[2].status

\* C2 (as claimed): once the loop of a batch run has started, the call ends
\* with a summary that covers every candidate, whatever happens to one of
\* them.
C2_BatchNeverAborts ==
    (InBatch /\ pc = "done" /\ files # <<>>) =>
        (Returned /\ Len(response.summary.results) = Len(files))

\* C3: in a bulk upload, the step that examines a candidate whose path does
\* not exist records failed / "File not found" for it and sends no upload.
C3_MissingPathFails ==
    [][(pc = "b_exists" /\ ~existsSync(files[idx], fs) /\ (pc' # pc \/ idx' # idx)) =>
          /\ result'.results =
                Append(result.results,
                       [path |-> files[idx], status |-> "failed",
                        message |-> <<"File", "not", "found">>, fileId |-> ""])
          /\ result'.failed = result.failed + 1
          /\ requests' = requests
          /\ pc' \in {"b_exists", "done"}]_vars

\* C3 witness: a bulk run recorded "File not found" for a candidate and sent
\* an upload for another one.
C3_Witness ==
    /\ tool = "iagon_bulk_upload"
    /\ \E i \in 1..Len(result.results) :
            /\ result.results[i].status = "failed"
            /\ result.results[i].message = <<"File", "not", "found">>
    /\ Len(requests) = 1

\* C4: each of the three size checks accepts a file of exactly 41,943,040
\* bytes (the batch loops go on to uploadFile, uploadFile sends the request)
\* and rejects any larger file with a message holding "limit" and the
\* formatted size.
SizeChecked == IF pc = "u_stat" THEN statSync(upload.localPath, fs)
               ELSE statSync(files[idx], fs)
C4_ExactByteLimit ==
    [][((pc \in {"b_stat", "d_stat", "u_stat"}) /\ (pc' # pc \/ idx' # idx)
            /\ SizeChecked.exists) =>
          LET size == SizeChecked.size
              message == IF InBatch THEN Last(result'.results).message
                         ELSE response'.text
          IN  /\ (size <= 41943040 /\ pc # "u_stat") =>
                    (pc' = "u_exists" /\ result' = result)
              /\ (size <= 41943040 /\ pc = "u_stat") =>
                    (pc' = "u_wait" /\ Len(requests') = Len(requests) + 1)
              /\ (size >= 41943041) =>
                    /\ requests' = requests
                    /\ pc' \notin {"u_exists", "u_wait"}
                    /\ InBatch => Pushed
                    /\ Contains(message, "limit")
                    /\ Contains(message, formatBytes(size))]_vars

\* C4 witness: a batch run sent the upload of a file of exactly the limit
\* and skipped a file one byte larger.
C4_Witness ==
    /\ InBatch
    /\ \E i \in 1..Len(requests) : requests[i].size = 41943040
    /\ \E i \in 1..Len(result.results) :
            /\ result.results[i].status = "skipped"
            /\ result.results[i].path = "/data/sub/over.mp4"
    /\ fsChanges = 0

\* C5: every upload request sent to the remote is for a file that the size
\* check found within the limit, and the file has that size when the
\* request is sent.
C5_NoRequestOverLimit ==
    /\ \A i \in 1..Len(requests) : requests[i].size <= FILE_SIZE_LIMIT
    /\ pc = "u_wait" =>
          /\ requests # <<>>
          /\ Last(requests).path = upload.localPath
          /\ statSync(upload.localPath, fs) = File(Last(requests).size)

\* C5 witness: a file passed the batch loop's check, grew over the limit
\* before uploadFile looked at it, and the run ended with no request sent.
C5_Witness ==
    /\ InBatch
    /\ pc = "done"
    /\ requests = <<>>
    /\ \E i \in 1..Len(result.results) :
            Contains(result.results[i].message, "exceeds")

\* C6 (as claimed): an outcome that records a rejection by one of the two
\* local size checks has status skipped.
C6_SizeRejectionIsSkipped ==
    \A i \in 1..Len(result.results) :
        (\/ Contains(result.results[i].message, "Exceeds")
         \/ Contains(result.results[i].message, "exceeds"))
            => result.results[i].status = "skipped"

\* messages uploadFile can resolve a failure with
GatewayMessages(path) ==
    {handleError(a.error) : a \in {b \in PostAnswers(path) : ~b.ok}}
        \cup {<<"File", "not", "found", ":", path>>}
        \cup {UploadTooLargeMessage(basename(path), n) : n \in Sizes}
RemoteIds == {IF a.id # "" THEN a.id ELSE a.fileId : a \in {b \in UploadAnswers : b.ok}}

\* C7: in a bulk upload every outcome is recorded by the branch the claim
\* names: missing path -> failed "File not found"; else size over the limit
\* -> skipped; else uploadFile succeeded -> success with the remote id and a
\* message holding the formatted size; else failed with uploadFile's
\* message unchanged.  The scenario [missing, 50MB, 1MB uploaded] returns
\* {total 3, successful 1, failed 1, skipped 1}, outcomes failed, skipped,
\* success.
C7_Scenario ==
    (/\ tool = "iagon_bulk_upload" /\ Returned /\ fsChanges = 0
     /\ files = <<"/data/a.mp4", "/data/big.mp4", "/data/c.mp4">>
     /\ response.summary.results[3].status # "failed") =>
        LET r == response.summary
        IN  /\ r.total = 3 /\ r.successful = 1 /\ r.failed = 1 /\ r.skipped = 1
            /\ r.results[1].status = "failed"
            /\ r.results[1].message = <<"File", "not", "found">>
            /\ r.results[2].status = "skipped"
            /\ r.results[3].status = "success"
            /\ r.results[3].fileId \in RemoteIds

C7_Step ==
    (tool = "iagon_bulk_upload" /\ Pushed) =>
        LET o == Last(result'.results)
            path == files[idx]
        IN  /\ o.path = path
            /\ result'.results = Append(result.results, o)
            /\ (pc = "b_exists") =>
                  /\ ~existsSync(path, fs)
                  /\ o.status = "failed" /\ o.message = <<"File", "not", "found">>
            /\ (pc = "b_stat") =>
                  /\ statSync(path, fs).size > 41943040
                  /\ o.status = "skipped"
                  /\ Contains(o.message, formatBytes(statSync(path, fs).size))
            /\ (pc \in {"u_exists", "u_stat", "u_wait"}) =>
                  \/ /\ o.status = "success"
                     /\ pc = "u_wait"
                     /\ o.fileId \in RemoteIds
                     /\ Contains(o.message, formatBytes(stats))
                  \/ /\ o.status = "failed"
                     /\ o.fileId = ""
                     /\ o.message \in GatewayMessages(path)
            /\ (pc = "u_exists") => o.message = <<"File", "not", "found", ":", path>>
            /\ (pc = "u_stat") => Contains(o.message, "exceeds")

C7_BulkOutcomeFunction == []C7_Scenario /\ [][C7_Step]_vars

\* C7 witness: the scenario's run returned with its third file uploaded.
C7_Witness ==
    /\ tool = "iagon_bulk_upload" /\ Returned /\ fsChanges = 0
    /\ files = <<"/data/a.mp4", "/data/big.mp4", "/data/c.mp4">>
    /\ response.summary.results[3].status = "success"

-----------------------------------------------------------------------------
(* IagonClient.listFiles / searchFiles *)

Absent == [present |-> FALSE, value |-> <<>>]
Present(v) == [present |-> TRUE, value |-> v]
NoTotal == [present |-> FALSE, value |-> 0]

\* response.data of GET /files and GET /files/search
RawPage(filesField, itemsField, totalField) ==
    [files |-> filesField, items |-> itemsField, total |-> totalField]

\* hasMore computed with >= for >
listFiles_HasMoreAtEnd(data, offset) ==
    LET items == IF data.files.present THEN data.files.value
                 ELSE IF data.items.present THEN data.items.value
                 ELSE <<>>
        total == IF data.total.present /\ data.total.value # 0
                 THEN data.total.value ELSE Len(items)
    IN  [items |-> items, total |-> total, count |-> Len(items), offset |-> offset,
         hasMore |-> total >= offset + Len(items),
         nextOffset |-> IF total >= offset + Len(items)
                        THEN Defined(offset + Len(items)) ELSE Undefined]

\* nextOffset computed from the offset alone
listFiles_NextIsOffset(data, offset) ==
    LET items == IF data.files.present THEN data.files.value
                 ELSE IF data.items.present THEN data.items.value
                 ELSE <<>>
        total == IF data.total.present /\ data.total.value # 0
                 THEN data.total.value ELSE Len(items)
    IN  [items |-> items, total |-> total, count |-> Len(items), offset |-> offset,
         hasMore |-> total > offset + Len(items),
         nextOffset |-> IF total > offset + Len(items)
                        THEN Defined(offset + 1) ELSE Undefined]

\* const items = data.files || data.items || []; const total = data.total ||
\* items.length; return { items, total, count, offset, hasMore, nextOffset }
listFiles(data, offset) ==
    LET items == IF data.files.present THEN data.files.value
                 ELSE IF data.items.present THEN data.items.value
                 ELSE <<>>
        total == IF data.total.present /\ data.total.value # 0
                 THEN data.total.value ELSE Len(items)
    IN  [items |-> items, total |-> total, count |-> Len(items), offset |-> offset,
         hasMore |-> total > offset + Len(items),
         nextOffset |-> IF total > offset + Len(items)
                        THEN Defined(offset + Len(items)) ELSE Undefined]

searchFiles(data, offset) ==
    LET items == IF data.files.present THEN data.files.value
                 ELSE IF data.items.present THEN data.items.value
                 ELSE <<>>
        total == IF data.total.present /\ data.total.value # 0
                 THEN data.total.value ELSE Len(items)
    IN  [items |-> items, total |-> total, count |-> Len(items), offset |-> offset,
         hasMore |-> total > offset + Len(items),
         nextOffset |-> IF total > offset + Len(items)
                        THEN Defined(offset + Len(items)) ELSE Undefined]

\* formatFilesAsMarkdown: the offset named by the "More files available" line
\* (no such line when hasMore is false)
MarkdownNextOffset(p) ==
    IF p.hasMore THEN Defined(p.offset + Len(p.items)) ELSE Undefined

-----------------------------------------------------------------------------
(* The remote behind the listing calls, and the caller paging through it *)

Min(a, b) == IF a < b THEN a ELSE b

CollectionSizes == (0..MaxN) \cup {45}
Limits == (1..MaxLimit) \cup {DEFAULT_PAGE_LIMIT}
Ops == {"listFiles", "searchFiles"}

\* a static collection of n items with ids 1..n answers (limit, offset) with
\* the items offset+1 .. min(offset+limit, n) and total n
StaticAnswer(n, limit, offset) ==
    LET from == Min(offset, n)
        upto == Min(offset + limit, n)
    IN  RawPage(Present([i \in 1..(upto - from) |-> from + i]), Absent, Present(n))

\* the unconstrained remote returns any number k <= MaxItems of items
ItemLists == {[i \in 1..k |-> i] : k \in 0..MaxItems}
MaybeItemLists == {Absent} \cup {Present(q) : q \in ItemLists}
MaybeTotals == {NoTotal} \cup {Present(t) : t \in 0..MaxTotal}

RawAnswers ==
    IF remote.static
    THEN {StaticAnswer(remote.n, call.limit, call.offset)}
    ELSE {RawPage(f, i, t) : f \in MaybeItemLists, i \in MaybeItemLists, t \in MaybeTotals}

ListErrors == {HttpError(401, <<>>), CodeError("ECONNABORTED")}

\* the outcome of parsing one argument with its schema
Valid(v) == [ok |-> TRUE, value |-> v]
Invalid == [ok |-> FALSE, value |-> 0]

\* the limit schema without .max(MAX_PAGE_LIMIT)
ParseLimit_NoMax(x) ==
    IF ~x.given THEN Valid(DEFAULT_PAGE_LIMIT)
    ELSE IF ~x.int THEN Invalid
    ELSE IF x.value < 1 THEN Invalid
    ELSE Valid(x.value)

\* limit: z.number().int().min(1).max(MAX_PAGE_LIMIT).default(DEFAULT_PAGE_LIMIT)
ParseLimit(x) ==
    IF ~x.given THEN Valid(DEFAULT_PAGE_LIMIT)
    ELSE IF ~x.int THEN Invalid
    ELSE IF x.value < 1 THEN Invalid
    ELSE IF x.value > MAX_PAGE_LIMIT THEN Invalid
    ELSE Valid(x.value)

\* offset: z.number().int().min(0).default(0)
ParseOffset(x) ==
    IF ~x.given THEN Valid(0)
    ELSE IF ~x.int THEN Invalid
    ELSE IF x.value < 0 THEN Invalid
    ELSE Valid(x.value)

\* PaginationSchema applied to the arguments of a tool call
PaginationSchema(args) ==
    [ok |-> ParseLimit(args.limit).ok /\ ParseOffset(args.offset).ok,
     limit |-> ParseLimit(args.limit).value,
     offset |-> ParseOffset(args.offset).value]

ListTools == {"iagon_list_files", "iagon_search_files"}
ToolOp(name) == IF name = "iagon_list_files" THEN "listFiles" ELSE "searchFiles"

\* limit and offset arguments around the edges of the schema
RawLimits == {Omitted, Num(0), Num(1), Num(MAX_PAGE_LIMIT), Num(MAX_PAGE_LIMIT + 1),
              Fraction(1)}
RawOffsets == {Omitted, Num(-1), Num(0), Num(1), Fraction(0)}

\* a call of iagon_list_files / iagon_search_files: the arguments are parsed
\* with the tool's input schema; the handler runs only with parsed arguments
\* and calls client.listFiles / searchFiles with params.limit, params.offset
\* (the client exists: see PageInit)
ListTool(name, rawLimit, rawOffset) ==
    /\ tool = "none" /\ call.op = "none"
    /\ tool' = name
    /\ params' = [NoParams EXCEPT !.limit = rawLimit, !.offset = rawOffset]
    /\ LET parsed == PaginationSchema(params')
       IN  IF ~parsed.ok
           THEN /\ response' = [kind |-> "invalid", isError |-> TRUE,
                                summary |-> NoResult,
                                text |-> <<"Invalid", "arguments", "for", "tool", name>>]
                /\ call' = call
           ELSE /\ call' = [NoCall EXCEPT !.op = ToolOp(name),
                                          !.limit = parsed.limit,
                                          !.offset = parsed.offset,
                                          !.pending = TRUE,
                                          !.first = parsed.offset,
                                          !.otherLimit = parsed.limit]
                /\ response' = response
    /\ UNCHANGED <<remote, page, prevPage, pageCount, seen>>
    /\ UNCHANGED <<fs, envToken, clientInstance, pc, files, idx, result,
                   stats, upload, requests, fsChanges>>
    /\ UNCHANGED auxVars

\* the caller's first request of a walk; it asks for pages of limit and of
\* otherLimit items in turn
FirstCall(op, limit, otherLimit, offset) ==
    /\ tool = "none" /\ call.op = "none"
    /\ call' = [NoCall EXCEPT !.op = op, !.limit = limit, !.offset = offset,
                              !.pending = TRUE, !.first = offset,
                              !.otherLimit = otherLimit]
    /\ UNCHANGED <<remote, page, prevPage, pageCount, seen>>
    /\ UNCHANGED <<batchVars, params, auxVars>>

\* the caller asks for the next page with the nextOffset it was given
FollowCall ==
    /\ call.op # "none" /\ ~call.pending /\ ~call.failed
    /\ page.nextOffset.defined
    /\ remote.static \/ pageCount < MaxPages
    /\ call' = [call EXCEPT !.limit = call.otherLimit,
                            !.otherLimit = call.limit,
                            !.offset = page.nextOffset.value,
                            !.pending = TRUE]
    /\ UNCHANGED <<remote, page, prevPage, pageCount, seen>>
    /\ UNCHANGED <<batchVars, params, auxVars>>

\* the GET resolves and listFiles / searchFiles returns the page
ListReturn(data) ==
    /\ call.pending
    /\ page' = IF call.op = "listFiles" THEN listFiles(data, call.offset)
               ELSE searchFiles(data, call.offset)
    /\ prevPage' = page
    /\ pageCount' = pageCount + 1
    /\ seen' = seen \o page'.items
    /\ call' = [call EXCEPT !.pending = FALSE]
    /\ UNCHANGED remote
    /\ UNCHANGED <<batchVars, params, auxVars>>

\* the GET fails: throw new Error(this.handleError(error))
ListThrow(error) ==
    /\ call.pending
    /\ call' = [call EXCEPT !.pending = FALSE, !.failed = TRUE]
    /\ response' = [kind |-> "error", isError |-> TRUE, summary |-> NoResult,
                    text |-> <<"Error", ":">> \o handleError(error)]
    /\ UNCHANGED <<remote, page, prevPage, pageCount, seen>>
    /\ UNCHANGED <<fs, envToken, clientInstance, tool, pc, files, idx, result,
                   stats, upload, requests, fsChanges>>
    /\ UNCHANGED <<params, auxVars>>

PageInit ==
    /\ fs = InitialFs
    /\ envToken = TRUE
    /\ clientInstance = TRUE
    /\ tool = "none"
    /\ pc = "idle"
    /\ files = <<>>
    /\ idx = 0
    /\ result = NoResult
    /\ stats = 0
    /\ upload = NoUpload
    /\ requests = <<>>
    /\ response = NoResponse
    /\ fsChanges = 0
    /\ remote \in {[static |-> FALSE, n |-> 0]}
                    \cup {[static |-> TRUE, n |-> k] : k \in CollectionSizes}
    /\ call = NoCall
    /\ page = NoPage
    /\ prevPage = NoPage
    /\ pageCount = 0
    /\ seen = <<>>
    /\ params = NoParams
    /\ enum = NoEnum
    /\ calls = 0
    /\ transfer = NoTransfer
    /\ runs = [r \in RunIds |-> NoRun]
    /\ gateway = NoGateway

PageNext ==
    \/ \E op \in Ops, limit \in Limits, otherLimit \in Limits, offset \in 0..MaxOffset :
            FirstCall(op, limit, otherLimit, offset)
    \/ \E name \in ListTools, rawLimit \in RawLimits, rawOffset \in RawOffsets :
            ListTool(name, rawLimit, rawOffset)
    \/ FollowCall
    \/ \E data \in RawAnswers : ListReturn(data)
    \/ \E error \in ListErrors : ListThrow(error)

PageSpec == PageInit /\ [][PageNext]_vars

\* the caller keeps asking while there is more and the remote keeps answering
FairPageSpec == PageSpec /\ WF_vars(PageNext)

-----------------------------------------------------------------------------
(* Properties of the listing calls *)

PageReceived == call.op # "none" /\ ~call.pending /\ ~call.failed

\* C8: every page returned by listFiles or searchFiles has count = number
\* of items, echoes the requested offset, has hasMore = (total > offset +
\* count), and has nextOffset undefined exactly when hasMore is false and
\* equal to offset + count otherwise.
C8_PageFields ==
    PageReceived =>
        /\ page.count = Len(page.items)
        /\ page.offset = call.offset
        /\ page.hasMore = (page.total > page.offset + page.count)
        /\ page.nextOffset.defined = page.hasMore
        /\ page.hasMore => page.nextOffset.value = page.offset + page.count
        /\ ~page.hasMore => page.nextOffset = [defined |-> FALSE, value |-> 0]

\* C8 witness: searchFiles returned, for a request at a positive offset, a
\* page holding items with more to come, built from a response of the
\* unconstrained remote.
C8_Witness ==
    /\ PageReceived
    /\ ~remote.static
    /\ call.op = "searchFiles"
    /\ page.offset > 0
    /\ page.count > 0
    /\ page.hasMore

\* two consecutive pages of a walk against the static collection
TwoPages == remote.static /\ PageReceived /\ pageCount >= 2
BothItems == prevPage.items \o page.items
NoDuplicateNoGap ==
    /\ \A i, j \in 1..Len(BothItems) : i # j => BothItems[i] # BothItems[j]
    /\ \A i \in 1..Len(BothItems) : BothItems[i] = prevPage.offset + i

\* C9 (as claimed): two consecutive pages of a static collection have no
\* duplicate and no gap and together hold min(total, limit1 + limit2) items.
C9_CoversMinTotalLimits ==
    TwoPages =>
        /\ NoDuplicateNoGap
        /\ Len(BothItems) = Min(remote.n, call.otherLimit + call.limit)

\* C9 (amended): two consecutive pages of a static collection, the first
\* asked at offset1, have no duplicate and no gap and together hold
\* min(total - offset1, limit1 + limit2) items.
C9_CoversFromOffset ==
    TwoPages =>
        /\ NoDuplicateNoGap
        /\ page.offset = prevPage.offset + prevPage.count
        /\ Len(BothItems) =
              Min(remote.n - prevPage.offset, call.otherLimit + call.limit)

\* C9 witness: two consecutive pages, the first asked at a positive offset,
\* that reach the end of the collection before limit1 + limit2 items.
C9_Witness ==
    /\ TwoPages
    /\ prevPage.offset > 0
    /\ page.count > 0
    /\ Len(BothItems) < call.otherLimit + call.limit

\* a walk from offset 0 with one page size against the static collection
UniformWalk ==
    /\ remote.static
    /\ call.op # "none"
    /\ call.first = 0
    /\ call.limit = call.otherLimit
PagesNeeded ==
    IF remote.n = 0 THEN 1 ELSE (remote.n + call.limit - 1) \div call.limit

C10_Pages ==
    (UniformWalk /\ PageReceived) =>
        /\ pageCount <= PagesNeeded
        /\ (~page.hasMore) = (pageCount = PagesNeeded)
        /\ seen = [i \in 1..Min(remote.n, pageCount * call.limit) |-> i]
        /\ MarkdownNextOffset(page) = page.nextOffset
        /\ (remote.n = 45 /\ call.limit = 20) =>
              /\ pageCount = 1 =>
                    (page.count = 20 /\ page.hasMore
                        /\ page.nextOffset = [defined |-> TRUE, value |-> 20])
              /\ pageCount = 2 =>
                    (page.count = 20 /\ page.hasMore
                        /\ page.nextOffset = [defined |-> TRUE, value |-> 40])
              /\ pageCount = 3 =>
                    (page.count = 5 /\ ~page.hasMore /\ ~page.nextOffset.defined)

WalkEnded == ~call.pending /\ (call.failed \/ ~page.hasMore)

\* C10: a walk from offset 0 with page size L over a static collection of N
\* items reaches, unless a request fails, a page with hasMore = false; that
\* page is page number ceil(N/L) (1 when N = 0), and by then every item has
\* been received exactly once, in order.  For N = 45, L = 20 the pages are
\* (20, true, 20), (20, true, 40), (5, false, undefined).
C10_WalkTerminates == []C10_Pages /\ (UniformWalk ~> WalkEnded)

\* C10 witness: the third and last page of the walk over 45 items by 20.
C10_Witness ==
    /\ UniformWalk /\ PageReceived
    /\ remote.n = 45 /\ call.limit = 20
    /\ pageCount = 3
    /\ ~page.hasMore
    /\ Len(seen) = 45

\* C11 (as claimed): every page that reports hasMore has a nextOffset greater
\* than the offset it was asked with, whatever the remote answered.
C11_NextOffsetIncreases ==
    (PageReceived /\ page.hasMore) => page.nextOffset.value > page.offset

\* C11 (amended): nextOffset never goes back: a page that reports hasMore has
\* nextOffset >= its offset, greater when the page holds an item, which every
\* such page of a static collection does; and of two consecutive pages of a
\* walk the later nextOffset is not smaller than the earlier one.
C11_NextOffsetNeverDecreases ==
    (PageReceived /\ page.hasMore) =>
        /\ page.nextOffset.value >= page.offset
        /\ page.count > 0 => page.nextOffset.value > page.offset
        /\ remote.static => page.nextOffset.value > page.offset
        /\ (pageCount >= 2 /\ prevPage.hasMore) =>
              /\ page.offset = prevPage.nextOffset.value
              /\ page.nextOffset.value >= prevPage.nextOffset.value
              /\ remote.static => page.nextOffset.value > prevPage.nextOffset.value

\* C11 witness: asked at a positive offset, the remote answered with no item
\* and a total beyond the offset, and the page reports hasMore.
C11_Witness ==
    /\ PageReceived
    /\ ~remote.static
    /\ page.offset > 0
    /\ page.count = 0
    /\ page.hasMore

\* C12: a call of the list or search tool whose limit is given and is not an
\* integer of [1,100], or whose offset is given and negative, returns a
\* validation error and no request is made; otherwise, when the call is not
\* rejected, its request carries the given limit and offset, 20 for an
\* omitted limit and 0 for an omitted offset.
C12_BadLimit ==
    /\ params.limit.given
    /\ ~params.limit.int \/ params.limit.value < 1 \/ params.limit.value > 100
C12_BadOffset ==
    params.offset.given /\ params.offset.int /\ params.offset.value < 0
C12_Rejected == response.kind = "invalid"
C12_PaginationValidated ==
    tool \in ListTools =>
        /\ (C12_BadLimit \/ C12_BadOffset) => C12_Rejected
        /\ C12_Rejected =>
              (response.isError /\ call = NoCall /\ page = NoPage /\ pageCount = 0)
        /\ ~C12_Rejected =>
              /\ call.op # "none"
              /\ call.limit = IF params.limit.given THEN params.limit.value ELSE 20
              /\ call.first = IF params.offset.given THEN params.offset.value ELSE 0
              /\ pageCount = 0 => (call.offset = call.first /\ (call.pending \/ call.failed))

\* a search with both arguments omitted received its first page, asked with
\* limit 20 at offset 0
C12_DefaultsReached ==
    /\ tool = "iagon_search_files"
    /\ params.limit = Omitted /\ params.offset = Omitted
    /\ PageReceived /\ pageCount = 1
    /\ call.limit = 20 /\ page.offset = 0

\* C12 witness: a call of the list tool with limit 101 was rejected and no
\* request was made.
C12_Witness ==
    /\ tool = "iagon_list_files"
    /\ params.limit = Num(101)
    /\ C12_Rejected /\ call = NoCall

-----------------------------------------------------------------------------
(* Properties of the directory enumeration *)

RECURSIVE C13_Glob(_, _)
\* the glob of the claim: the whole name, "*" any run, "?" one character,
\* every other character itself, letters compared without case
C13_Glob(pattern, name) ==
    IF pattern = <<>> THEN name = <<>>
    ELSE IF Head(pattern) = "*"
         THEN \E k \in 0..Len(name) :
                  C13_Glob(Tail(pattern), SubSeq(name, k + 1, Len(name)))
         ELSE /\ name # <<>>
              /\ Head(pattern) = "?" \/ Lower(Head(pattern)) = Lower(Head(name))
              /\ C13_Glob(Tail(pattern), Tail(name))

\* C13 (as claimed): the filter accepts a name exactly when the pattern, read
\* as a glob over the whole name without case, matches it; "*.mp4" accepts
\* "clip.MP4" and rejects "clip.mp4x".
C13_GlobWholeName ==
    (enum.op = "test" /\ enum.pattern # <<>>) =>
        /\ enum.accepted = C13_Glob(enum.pattern, enum.name)
        /\ (/\ enum.pattern = <<"*", ".", "m", "p", "4">>
            /\ enum.name = <<"c", "l", "i", "p", ".", "M", "P", "4">>) => enum.accepted
        /\ (/\ enum.pattern = <<"*", ".", "m", "p", "4">>
            /\ enum.name = <<"c", "l", "i", "p", ".", "m", "p", "4", "x">>) => ~enum.accepted

\* the filter with pattern "*.mp4" accepted the name "clip.mp4x"
C13_SubstringAccepted ==
    /\ enum.op = "test"
    /\ enum.pattern = <<"*", ".", "m", "p", "4">>
    /\ enum.name = <<"c", "l", "i", "p", ".", "m", "p", "4", "x">>
    /\ enum.accepted

\* the directory a path lies in
C14_Parent(p) ==
    CASE p \in {"/data/a.mp4", "/data/big.mp4", "/data/c.mp4", "/data/edge.mp4",
                "/data/sub"} -> "/data"
      [] p \in {"/data/sub/over.mp4", "/data/sub/deep"} -> "/data/sub"
      [] p = "/data/sub/deep/z.mp4" -> "/data/sub/deep"
      [] OTHER -> "/"
C14_Below(p, dir) ==
    \/ C14_Parent(p) = dir
    \/ C14_Parent(C14_Parent(p)) = dir
    \/ C14_Parent(C14_Parent(C14_Parent(p))) = dir
C14_Matching ==
    {p \in Paths : fs[p].exists /\ NameAccepted(enum.pattern, Chars(basename(p)))}
C14_Found == {enum.found[i] : i \in 1..Len(enum.found)}

\* C14: an enumeration without recursion returns exactly the existing
\* regular files directly in the root whose name passes the filter; with
\* recursion it returns exactly those at any depth below the root, whatever
\* the names of the directories on the way; no path is returned twice.
C14_EnumerationDepth ==
    enum.op = "list" =>
        /\ \A i, j \in 1..Len(enum.found) : i # j => enum.found[i] # enum.found[j]
        /\ ~enum.recursive =>
              C14_Found = {p \in C14_Matching : C14_Parent(p) = enum.dir}
        /\ enum.recursive =>
              C14_Found = {p \in C14_Matching : C14_Below(p, enum.dir)}
        /\ {p \in C14_Matching : C14_Parent(p) = enum.dir} \subseteq C14_Found

\* C14 witness: "/data" enumerated without recursion with pattern "*.mp4"
\* returned its three files and none of the two .mp4 files below "/data/sub".
C14_Witness ==
    /\ enum.op = "list"
    /\ enum.dir = "/data"
    /\ ~enum.recursive
    /\ enum.pattern = <<"*", ".", "m", "p", "4">>
    /\ enum.found = <<"/data/big.mp4", "/data/c.mp4", "/data/edge.mp4">>

\* "/data" enumerated with recursion and pattern "e*" returned a file of
\* "/data/sub", a directory whose name the pattern does not match
C14_RecursiveReached ==
    /\ enum.op = "list" /\ enum.dir = "/data" /\ enum.recursive
    /\ enum.pattern = <<"e", "*">>
    /\ enum.found = <<"/data/edge.mp4", "/data/sub/over.mp4">>

-----------------------------------------------------------------------------
(* More properties of the upload tools *)

\* the message of the outcome an upload step produces
StepMessage == IF InBatch THEN Last(result'.results).message ELSE response'.text
LocalSizeMessages ==
    {BatchSkipMessage(n) : n \in Sizes}
        \cup {UploadTooLargeMessage(f, n) : f \in {basename(p) : p \in Paths} \cup RemoteNames,
                                            n \in Sizes}
        \cup {<<"**Upload Failed**">> \o UploadTooLargeMessage(f, n) :
                    f \in {basename(p) : p \in Paths} \cup RemoteNames, n \in Sizes}

\* C15: the step in which an upload is answered with HTTP 413 produces a
\* failure whose message holds "40MB" and "limit" and is none of the
\* messages of the local size checks; a batch records the item as failed,
\* not skipped.
C15_Step ==
    (/\ pc = "u_wait" /\ (pc' # pc \/ idx' # idx)
     /\ ~upload'.answer.ok /\ upload'.answer.error.hasResponse
     /\ upload'.answer.error.status = 413) =>
        /\ Contains(StepMessage, "40MB")
        /\ Contains(StepMessage, "limit")
        /\ StepMessage \notin LocalSizeMessages
        /\ ~Contains(StepMessage, "Exceeds") /\ ~Contains(StepMessage, "exceeds")
        /\ InBatch =>
              /\ Pushed
              /\ Last(result'.results).status = "failed"
              /\ Last(result'.results).path = files[idx]
              /\ result'.failed = result.failed + 1
              /\ result'.skipped = result.skipped
        /\ ~InBatch => response'.isError
C15_RemoteTooLargeFails == [][C15_Step]_vars

\* C15 witness: a batch run holds an item the remote refused with 413,
\* recorded as failed, and an item skipped by the local size check.
C15_Witness ==
    /\ InBatch
    /\ upload.answer.error.status = 413
    /\ \E i \in 1..Len(result.results) :
            /\ result.results[i].status = "failed"
            /\ Contains(result.results[i].message, "40MB")
            /\ Contains(result.results[i].message, "sharding")
    /\ \E i \in 1..Len(result.results) : result.results[i].status = "skipped"

\* C16 (as claimed): every upload request sent for a tool call carries the
\* folder_id that call was given.
C16_RequestCarriesFolder ==
    \A i \in 1..Len(requests) : requests[i].folderId = params.folder_id

\* an upload tool called with folder_id "folder-1" sent a request
C16_FolderGiven ==
    /\ params.folder_id = "folder-1"
    /\ requests # <<>>

-----------------------------------------------------------------------------
(* Properties of a session *)

\* C17: while no access token is configured, through any sequence of tool
\* calls, no client instance is ever retained and no request is ever sent;
\* every call of the upload tools ends at once with an error result, except
\* a directory upload that finds nothing to upload, which never asks for
\* the client.
C17_NoTokenNoGateway ==
    ~envToken =>
        /\ ~clientInstance
        /\ requests = <<>>
        /\ pc \in {"idle", "done"}
        /\ pc = "done" =>
              \/ response.isError
              \/ tool = "iagon_upload_directory" /\ response.kind = "note"
        /\ (pc = "done" /\ tool \in {"iagon_bulk_upload", "iagon_upload_file"}) =>
              /\ response.isError
              /\ Contains(response.text, "IAGON_ACCESS_TOKEN")

\* C17 witness: without a token, a bulk upload made after earlier calls of
\* the session returned an error.
C17_Witness ==
    /\ ~envToken
    /\ calls = MaxCalls
    /\ pc = "done"
    /\ tool = "iagon_bulk_upload"
    /\ response.isError

-----------------------------------------------------------------------------
(* Order and number of the uploads of a batch run *)

\* an outcome recorded from what the remote answered (or from the failure of
\* the POST), as opposed to one recorded by a local check
RemoteMessages ==
    {handleError(a.error) : a \in {b \in UploadAnswers \cup {UploadFail(ReadError)} : ~b.ok}}
RemoteOutcome(o) ==
    \/ o.status = "success"
    \/ o.status = "failed" /\ o.message \in RemoteMessages
Settled == {i \in 1..Len(result.results) : RemoteOutcome(result.results[i])}
InFlight == Len(requests) - Cardinality(Settled)

C18_State ==
    (InBatch /\ pc \notin {"idle", "done"}) =>
        /\ InFlight \in {0, 1}
        /\ InFlight = 1 <=> pc = "u_wait"
        /\ Len(result.results) = idx - 1
        /\ \A i \in 1..(idx - 1) : result.results[i].path = files[i]
        /\ pc \in {"u_exists", "u_stat", "u_wait"} => upload.localPath = files[idx]
C18_Send ==
    (InBatch /\ requests' # requests) =>
        /\ requests' = Append(requests, Last(requests'))
        /\ InFlight = 0
        /\ Last(requests').path = files[idx]
        /\ Len(result.results) = idx - 1
        /\ \A k \in 1..Len(requests) :
              \E i \in Settled : i < idx /\ files[i] = requests[k].path

\* C18: in a batch run at most one upload request is in flight, and the
\* request for candidate j is sent only when the outcomes of all candidates
\* before j are recorded, every earlier request being settled.
C18_SequentialInOrder == []C18_State /\ [][C18_Send]_vars

\* C18 witness: the second request of a run is in flight, for the third
\* candidate, after one upload succeeded and one candidate was skipped.
C18_Witness ==
    /\ InBatch
    /\ pc = "u_wait"
    /\ idx = 3
    /\ Len(requests) = 2
    /\ result.successful = 1 /\ result.skipped = 1

\* C19: in a batch run the number of requests sent is the number of outcomes
\* recorded from an answer of the remote, plus one while a request is in
\* flight: one request for each candidate that reached the remote, none for
\* a candidate stopped by a local check, and never more requests than
\* candidates, whatever the remote answered.
C19_NoRetry ==
    InBatch =>
        /\ Len(requests) = Cardinality(Settled) + (IF pc = "u_wait" THEN 1 ELSE 0)
        /\ Len(requests) <= Len(files)
        /\ \A k \in 1..Len(requests) :
              \E i \in Settled \cup (IF pc = "u_wait" THEN {idx} ELSE {}) :
                  /\ requests[k].path = files[i]
                  /\ Cardinality({j \in Settled : j < i}) = k - 1

\* C19 witness: a run of two candidates ended with both uploads failed, one
\* timed out and one refused with 429, and two requests sent.
C19_Witness ==
    /\ InBatch
    /\ Returned
    /\ Len(files) = 2
    /\ Len(requests) = 2
    /\ response.summary.failed = 2
    /\ \E i \in 1..2 : Contains(response.summary.results[i].message, "timed")
    /\ \E i \in 1..2 : Contains(response.summary.results[i].message, "Rate")

-----------------------------------------------------------------------------
(* A candidate that is not a regular file *)

\* C20 (as claimed): in a bulk upload a candidate that is a directory is
\* recorded as failed with "File not found", the handler never goes on to
\* the size check or to uploadFile with it, and no request is sent for it.
C20_DirectoryCandidateNotFound ==
    tool = "iagon_bulk_upload" =>
        /\ \A i \in 1..Len(result.results) :
              result.results[i].path \in Directories =>
                  /\ result.results[i].status = "failed"
                  /\ result.results[i].message = <<"File", "not", "found">>
        /\ pc \in {"b_stat", "u_exists", "u_stat", "u_wait"} =>
              files[idx] \notin Directories
        /\ \A i \in 1..Len(requests) : requests[i].path \notin Directories

\* a bulk upload recorded a directory as failed with the message of a failed
\* read
C20_DirectoryUploadTried ==
    /\ tool = "iagon_bulk_upload"
    /\ \E i \in 1..Len(result.results) :
            /\ result.results[i].path = "/data/sub"
            /\ result.results[i].status = "failed"
            /\ Contains(result.results[i].message, "EISDIR")

-----------------------------------------------------------------------------
(* Size fields of a page *)

\* C21: every page returned by listFiles or searchFiles has count <= the
\* requested limit and a total that is the size of the remote collection at
\* query time, so total >= offset + count, for every response shape the client
\* accepts.  Stated here for the responses that honour the limit: such a page
\* has total >= offset + count.
C21_TotalCoversPage ==
    (PageReceived /\ page.count <= call.limit) =>
        page.total >= page.offset + page.count

-----------------------------------------------------------------------------
(* iagon_delete_file and iagon_download_file; IagonClient.deleteFile,      *)
(* getFileInfo and downloadFile                                             *)

\* data events of one response stream
MaxChunks == 2
ChunkSizes == {1, 1023}

FileIds == {"f1", "gone"}
\* local_path: in a directory that exists, in one that does not, in one that
\* cannot be made, and the root directory itself
LocalPaths == {"/downloads/v.mp4", "/new/v.mp4", "/forbidden/x/v.mp4", "/"}
LocalDirectories == {"/", "/downloads"}

dirname(p) ==
    CASE p = "/downloads/v.mp4" -> "/downloads"
      [] p = "/new/v.mp4" -> "/new"
      [] p = "/forbidden/x/v.mp4" -> "/forbidden/x"
      [] OTHER -> "/"

\* fs.mkdirSync(dir, { recursive: true }) throws below /forbidden
mkdirSync(dir) ==
    [thrown |-> dir = "/forbidden/x",
     error |-> PlainError(<<"EACCES", ":", "permission", "denied", ",",
                            "mkdir", dir>>)]

\* what the remote answers with when it does not answer 2xx, and the
\* failures of the transport
RemoteErrors ==
    {HttpError(401, <<>>), HttpError(404, <<>>), HttpError(408, <<>>),
     HttpError(408, <<"Request", "Timeout">>), HttpError(503, <<>>),
     HttpError(503, <<"Service", "Unavailable">>),
     CodeError("ECONNABORTED"), CodeError("ENOTFOUND"), CodeError("ECONNREFUSED")}

\* the IagonFile of GET /files/{id}
FoundInfo == [name |-> "remote.mp4", nodeId |-> "n1"]
Answered == [ok |-> TRUE, id |-> "", fileId |-> "", error |-> PlainError(<<>>)]
Failed(e) == [ok |-> FALSE, id |-> "", fileId |-> "", error |-> e]
\* what DELETE /files/{id} and GET /files/{id} settle with
JsonAnswers == {Answered} \cup {Failed(e) : e \in RemoteErrors}
\* what GET /download settles with: with responseType "stream" the body of
\* an error response is a stream and has no message field
GetAnswers ==
    {Answered} \cup {Failed(e) : e \in {x \in RemoteErrors : x.dataMessage = <<>>}}

DownloadResult(success, fileName, fileSize, message) ==
    [success |-> success, fileName |-> fileName, fileSize |-> fileSize,
     message |-> message]

\* the variables no step of a delete or download call changes
TransferFrame ==
    /\ UNCHANGED <<fs, envToken, files, idx, result, stats, upload, requests,
                   fsChanges>>
    /\ UNCHANGED <<pageVars, params, enum, calls, runs, gateway>>

\* the text of iagon_delete_file's result
DeleteFileText(fileId, r) ==
    IF r.success
    THEN <<"**File Deleted**", "File", "ID", fileId, "has", "been",
           "permanently", "deleted", ".">>
    ELSE <<"**Delete Failed**">> \o r.message

\* the text of iagon_download_file's result
DownloadFileText(localPath, r) ==
    IF r.success
    THEN <<"**Download Successful**", "File", ":", r.fileName, "Size", ":",
           formatBytes(r.fileSize), "Saved", "to", ":", localPath>>
    ELSE <<"**Download Failed**">> \o r.message

\* downloadFile's promise resolves with r and the handler returns its text
DownloadReturns(t, r) ==
    /\ transfer' = [t EXCEPT !.promise = "resolved", !.result = r]
    /\ pc' = "done"
    /\ response' = [kind |-> "download", isError |-> ~r.success,
                    summary |-> NoResult, text |-> DownloadFileText(t.localPath, r)]

\* the handler of iagon_delete_file up to its await: getIagonClient() and
\* client.delete(`/files/${fileId}`)
DeleteFileStart(file_id) ==
    /\ pc = "idle"
    /\ tool' = "iagon_delete_file"
    /\ clientInstance' = ClientAvailable
    /\ IF ~ClientAvailable
       THEN /\ Caught(TokenRequiredMessage)
            /\ transfer' = transfer
       ELSE /\ transfer' = [NoTransfer EXCEPT
                                !.op = "deleteFile", !.fileId = file_id,
                                !.promise = "pending",
                                !.sent = <<[method |-> "DELETE", id |-> file_id,
                                            nodeId |-> "", filename |-> ""]>>]
            /\ pc' = "x_delete"
            /\ response' = response
    /\ TransferFrame

\* the DELETE settles: deleteFile returns { success, message } and the
\* handler returns its text
DeleteFileSettle(answer) ==
    /\ pc = "x_delete"
    /\ LET r == IF answer.ok
                THEN DownloadResult(TRUE, "", 0,
                                    <<"File", transfer.fileId, "deleted",
                                      "successfully">>)
                ELSE DownloadResult(FALSE, "", 0, handleError(answer.error))
       IN  /\ transfer' = [transfer EXCEPT !.promise = "resolved", !.result = r,
                                            !.answer = answer]
           /\ response' = [kind |-> "delete", isError |-> ~r.success,
                           summary |-> NoResult,
                           text |-> DeleteFileText(transfer.fileId, r)]
    /\ pc' = "done"
    /\ UNCHANGED <<tool, clientInstance>>
    /\ TransferFrame

\* the handler of iagon_download_file and downloadFile up to its first await:
\* getIagonClient(), the directory of localPath made if missing, GET /files/{id}
DownloadFileStart(file_id, local_path) ==
    /\ pc = "idle"
    /\ tool' = "iagon_download_file"
    /\ clientInstance' = ClientAvailable
    /\ LET dir == dirname(local_path)
           missing == dir \notin LocalDirectories
           t == [NoTransfer EXCEPT !.op = "downloadFile", !.fileId = file_id,
                                   !.localPath = local_path,
                                   !.promise = "pending"]
       IN  IF ~ClientAvailable
           THEN /\ Caught(TokenRequiredMessage)
                /\ transfer' = transfer
           ELSE IF missing /\ mkdirSync(dir).thrown
           THEN DownloadReturns(t, DownloadResult(FALSE, file_id, 0,
                                                  handleError(mkdirSync(dir).error)))
           ELSE /\ transfer' = [t EXCEPT
                                    !.made = IF missing THEN {dir} ELSE {},
                                    !.sent = <<[method |-> "GET", id |-> file_id,
                                                nodeId |-> "", filename |-> ""]>>]
                /\ pc' = "x_info"
                /\ response' = response
    /\ TransferFrame

\* getFileInfo: response.data, null on a 404, throw new Error(handleError(error))
\* on any other failure
getFileInfo(answer) ==
    IF answer.ok THEN [thrown |-> FALSE, info |-> "found", message |-> <<>>]
    ELSE IF answer.error.axios /\ answer.error.hasResponse
            /\ answer.error.status = 404
    THEN [thrown |-> FALSE, info |-> "null", message |-> <<>>]
    ELSE [thrown |-> TRUE, info |-> "none",
          message |-> handleError(answer.error)]

\* GET /files/{id} settles; then fileName is chosen and GET /download is sent
\* with nodeId: fileInfo?.nodeId and filename: fileInfo?.name || fileId
DownloadFileInfo(answer) ==
    /\ pc = "x_info"
    /\ LET got == getFileInfo(answer)
           name == IF got.info = "found" THEN FoundInfo.name ELSE ""
           fileName == IF basename(transfer.localPath) # ""
                       THEN basename(transfer.localPath)
                       ELSE IF name # "" THEN name ELSE transfer.fileId
       IN  IF got.thrown
           THEN DownloadReturns([transfer EXCEPT !.answer = answer],
                    DownloadResult(FALSE, transfer.fileId, 0,
                                   handleError(PlainError(got.message))))
           ELSE /\ transfer' =
                    [transfer EXCEPT
                        !.info = got.info, !.fileName = fileName,
                        !.answer = answer,
                        !.sent = Append(@,
                            [method |-> "GET", id |-> "/download",
                             nodeId |-> IF got.info = "found"
                                        THEN FoundInfo.nodeId ELSE "",
                             filename |-> IF name # "" THEN name
                                          ELSE transfer.fileId])]
                /\ pc' = "x_get"
                /\ response' = response
    /\ UNCHANGED <<tool, clientInstance>>
    /\ TransferFrame

\* GET /download settles: on a response, fs.createWriteStream(localPath),
\* response.data.pipe(writer) and the promise that waits for the writer
DownloadFileGet(answer) ==
    /\ pc = "x_get"
    /\ IF ~answer.ok
       THEN DownloadReturns([transfer EXCEPT !.answer = answer],
                DownloadResult(FALSE, transfer.fileId, 0,
                               handleError(answer.error)))
       ELSE /\ transfer' = [transfer EXCEPT !.stream = "flowing",
                                            !.writer = "opening",
                                            !.answer = answer]
            /\ pc' = "x_stream"
            /\ response' = response
    /\ UNCHANGED <<tool, clientInstance>>
    /\ TransferFrame

\* a data event of n bytes: the listener adds it to fileSize and the pipe
\* hands it to the writer
StreamData(n) ==
    /\ pc = "x_stream"
    /\ transfer.stream = "flowing"
    /\ transfer.chunks < MaxChunks
    /\ transfer' = [transfer EXCEPT !.emitted = @ + n, !.chunks = @ + 1,
                                    !.fileSize = @ + n, !.buffered = @ + n]
    /\ UNCHANGED <<tool, pc, response, clientInstance>>
    /\ TransferFrame

\* the response stream ends and the pipe ends the writer
StreamEnd ==
    /\ pc = "x_stream"
    /\ transfer.stream = "flowing"
    /\ transfer' = [transfer EXCEPT !.stream = "ended"]
    /\ UNCHANGED <<tool, pc, response, clientInstance>>
    /\ TransferFrame

\* the response stream fails or is closed before its end.  Nothing listens
\* for it: either the promise stays pending, or the error event, having no
\* listener, is thrown and the uncaughtException handler exits the process.
StreamError(exits) ==
    /\ pc = "x_stream"
    /\ transfer.stream = "flowing"
    /\ transfer' = [transfer EXCEPT !.stream = "errored"]
    /\ pc' = IF exits THEN "exited" ELSE pc
    /\ UNCHANGED <<tool, response, clientInstance>>
    /\ TransferFrame

\* the writer opens localPath, creating or truncating the file
WriterOpen ==
    /\ pc = "x_stream"
    /\ transfer.writer = "opening"
    /\ transfer.localPath \notin LocalDirectories
    /\ transfer' = [transfer EXCEPT !.writer = "open", !.written = 0]
    /\ UNCHANGED <<tool, pc, response, clientInstance>>
    /\ TransferFrame

\* the writer writes what it was handed
WriterFlush ==
    /\ pc = "x_stream"
    /\ transfer.writer = "open"
    /\ transfer.buffered > 0
    /\ transfer' = [transfer EXCEPT !.written = @ + transfer.buffered,
                                    !.buffered = 0]
    /\ UNCHANGED <<tool, pc, response, clientInstance>>
    /\ TransferFrame

\* writer.on("finish"): resolve({ success: true, ..., fileSize, ... })
WriterFinish ==
    /\ pc = "x_stream"
    /\ transfer.stream = "ended"
    /\ transfer.writer = "open"
    /\ transfer.buffered = 0
    /\ DownloadReturns([transfer EXCEPT !.writer = "finished"],
                       DownloadResult(TRUE, transfer.fileName, transfer.fileSize,
                                      <<"Successfully", "downloaded",
                                        transfer.fileName, "to",
                                        transfer.localPath>>))
    /\ UNCHANGED <<tool, clientInstance>>
    /\ TransferFrame

\* what opening or writing localPath can fail with; opening a directory
\* for writing always fails
WriteErrors(localPath) ==
    IF localPath \in LocalDirectories
    THEN {<<"EISDIR", ":", "illegal", "operation", "on", "a", "directory">>}
    ELSE {<<"EACCES", ":", "permission", "denied">>,
          <<"ENOSPC", ":", "no", "space", "left", "on", "device">>}

\* writer.on("error"): reject({ success: false, ... }); the handler's await
\* throws that object and its catch returns `Error: ${String(error)}`
WriterError(err) ==
    /\ pc = "x_stream"
    /\ transfer.writer \in {"opening", "open"}
    /\ transfer' = [transfer EXCEPT
                        !.writer = "errored", !.promise = "rejected",
                        !.result = DownloadResult(FALSE, transfer.fileName, 0,
                                        <<"Download", "failed", ":">> \o err)]
    /\ Caught(<<"[object Object]">>)
    /\ UNCHANGED <<tool, clientInstance>>
    /\ TransferFrame

\* the steps of the program, of a remote that answers and streams, and of
\* the local file system answering the writer
TransferProgress ==
    \/ \E file_id \in FileIds : DeleteFileStart(file_id)
    \/ \E answer \in JsonAnswers : DeleteFileSettle(answer)
    \/ \E file_id \in FileIds, local_path \in LocalPaths :
            DownloadFileStart(file_id, local_path)
    \/ \E answer \in JsonAnswers : DownloadFileInfo(answer)
    \/ \E answer \in GetAnswers : DownloadFileGet(answer)
    \/ \E n \in ChunkSizes : StreamData(n)
    \/ StreamEnd
    \/ WriterOpen
    \/ WriterFlush
    \/ WriterFinish
    \/ \E err \in WriteErrors(transfer.localPath) :
            transfer.localPath \in LocalDirectories /\ WriterError(err)

\* the failures that may or may not happen during a transfer
TransferFailure ==
    \/ \E exits \in BOOLEAN : StreamError(exits)
    \/ \E err \in WriteErrors(transfer.localPath) :
            transfer.localPath \notin LocalDirectories /\ WriterError(err)

TransferNext == TransferProgress \/ TransferFailure

TransferSpec == Init /\ [][TransferNext]_vars

\* the program keeps running and the remote keeps answering and streaming;
\* failures are not bound to happen
FairTransferSpec == TransferSpec /\ WF_vars(TransferProgress)

-----------------------------------------------------------------------------
(* Properties of delete and download *)

DeleteFailed ==
    /\ tool = "iagon_delete_file" /\ pc = "done"
    /\ transfer.op = "deleteFile" /\ ~transfer.answer.ok

\* C22: the message of a failed request is the timeout message for an HTTP
\* 408 response and for a transport-level timeout, the connectivity message
\* for a DNS or connection failure, and the generic failure, carrying the
\* remote's message when there is one, only for a status outside the
\* classified set.
C22_Classification ==
    DeleteFailed =>
        LET e == transfer.answer.error
            m == transfer.result.message
            timeout == (e.hasResponse /\ e.status = 408)
                            \/ (~e.hasResponse /\ e.code = "ECONNABORTED")
            connectivity == ~e.hasResponse
                                /\ e.code \in {"ENOTFOUND", "ECONNREFUSED"}
            generic == e.hasResponse
                            /\ e.status \notin {401, 403, 404, 408, 413, 429, 500}
        IN  /\ timeout => (Contains(m, "timed") /\ Contains(m, "out"))
            /\ connectivity => (Contains(m, "Cannot") /\ Contains(m, "connect"))
            /\ generic =>
                  IF e.dataMessage # <<>> THEN m = e.dataMessage
                  ELSE Contains(m, "API") /\ Contains(m, ToString(e.status))


\* C23: a remote 404 for the file id makes delete and download return a
\* failed outcome with the not-found message instead of throwing; a download
\* whose metadata lookup answers 404 ends as a failed outcome and writes no
\* local file.
NotFoundAnswer == Failed(HttpError(404, <<>>))
NotFoundOutcome ==
    /\ pc = "done"
    /\ transfer.promise = "resolved"
    /\ ~transfer.result.success
    /\ Contains(transfer.result.message, "Resource")
    /\ Contains(transfer.result.message, "found")
    /\ response.isError
C23_NotFoundFails ==
    /\ (transfer.op = "deleteFile" /\ transfer.answer = NotFoundAnswer)
            => NotFoundOutcome
    /\ (transfer.op = "downloadFile" /\ pc = "done"
            /\ transfer.answer = NotFoundAnswer)
            => (NotFoundOutcome /\ transfer.written = -1)
    /\ (transfer.op = "downloadFile" /\ pc = "done" /\ transfer.info = "null")
            => (~transfer.result.success /\ response.isError
                    /\ transfer.written = -1)

-----------------------------------------------------------------------------
(* Input errors and the empty enumeration of the directory upload *)

InvalidDirectoryInput(dir, pattern) ==
    \/ ~existsSync(dir, fs)
    \/ dir \notin Directories
    \/ (pattern # NoPattern /\ RegExpThrows(RegexSource(pattern)))

\* C24: a directory upload whose root path is missing or is not a directory,
\* or whose name pattern is malformed, returns an error result at once,
\* whatever the directory holds: no gateway instance is obtained and no
\* upload request is sent.
C24_Step ==
    \A dir \in DirectoryInputs, recursive \in BOOLEAN,
       pattern \in DirectoryPatterns, folder_id \in FolderIds :
        (/\ UploadDirectoryStart(dir, recursive, pattern, folder_id)
         /\ InvalidDirectoryInput(dir, pattern))
            => /\ pc' = "done"
               /\ response'.isError
               /\ clientInstance' = clientInstance
               /\ requests' = requests
\* C24, over every step: a directory upload with an invalid input returns an
\* error result, obtains no gateway instance and sends no upload.
C24_InvalidInputRejected == [][C24_Step]_vars


\* the result carries the rendering of a summary whose counters are all zero
\* and that lists no outcome
EmptySummary(r) ==
    /\ r.kind = "summary"
    /\ r.summary = [total |-> 0, successful |-> 0, failed |-> 0, skipped |-> 0,
                    results |-> <<>>]

\* C25: when the enumeration of an existing directory yields no candidate,
\* the directory upload returns at once a non-error result made of a summary
\* with total = 0 (successful = failed = skipped = 0, no outcomes) and an
\* explanatory note; no gateway instance is obtained and no upload is sent.
C25_Step ==
    \A dir \in DirectoryInputs, recursive \in BOOLEAN,
       pattern \in DirectoryPatterns, folder_id \in FolderIds :
        (/\ UploadDirectoryStart(dir, recursive, pattern, folder_id)
         /\ existsSync(dir, fs) /\ dir \in Directories
         /\ ~EntriesThrow(readdirSync(dir), recursive, pattern, fs)
         /\ getFilesFromDirectory(dir, recursive, pattern, fs) = <<>>)
            => /\ pc' = "done"
               /\ ~response'.isError
               /\ EmptySummary(response')
               /\ Contains(response'.text, "No")
               /\ clientInstance' = clientInstance
               /\ requests' = requests
\* C25, over every step: a directory upload whose enumeration is empty returns
\* a non-error summary with total = 0 and a note, without gateway or upload.
C25_EmptyEnumeration == [][C25_Step]_vars


\* C26: downloadFile reports every failure as a returned value: its promise
\* is never rejected, a failure resolves it with success == false and a
\* message, and on success the reported fileSize is the number of bytes
\* received from the response stream.
C26_FailuresAreValues ==
    transfer.op = "downloadFile" =>
        /\ transfer.promise # "rejected"
        /\ (transfer.promise = "resolved" /\ ~transfer.result.success)
                => (transfer.result.message # <<>> /\ transfer.result.fileSize = 0)
        /\ (transfer.promise = "resolved" /\ transfer.result.success)
                => transfer.result.fileSize = transfer.emitted


\* C27: once the download response has been received, whichever way the
\* transfer ends, downloadFile's promise is eventually resolved or rejected
\* and the tool call eventually returns a result.
C27_DownloadSettles ==
    (transfer.op = "downloadFile" /\ pc = "x_stream")
        ~> (/\ transfer.promise \in {"resolved", "rejected"}
            /\ pc = "done" /\ response # NoResponse)

-----------------------------------------------------------------------------
(* Handlers in progress at the same time.  A handler runs from one await   *)
(* to the next without interruption: a batch handler awaits only           *)
(* client.uploadFile, and uploadFile awaits only its POST.  The file       *)
(* system does not change here, so uploadFile's own checks, made in the    *)
(* same synchronous block as the handler's, pass and the POST is sent.     *)

\* tool calls started in one behaviour
MaxStarted == 3
\* changes of process.env.IAGON_ACCESS_TOKEN in one behaviour
MaxEnvChanges == 1

\* getIagonClient() calling the constructor each time
getIagonClient_NoCache(g, token) ==
    IF token
    THEN [gateway |-> [g EXCEPT !.instance = g.constructed + 1,
                                !.constructed = @ + 1, !.attempts = @ + 1],
          client |-> g.constructed + 1]
    ELSE [gateway |-> [g EXCEPT !.attempts = @ + 1], client |-> 0]

\* if (!clientInstance) { clientInstance = new IagonClient(); } return
\* clientInstance; the constructor throws without a token, before the
\* assignment (client 0: nothing returned)
getIagonClient(g, token) ==
    IF g.instance # 0 THEN [gateway |-> g, client |-> g.instance]
    ELSE IF token
    THEN [gateway |-> [g EXCEPT !.instance = g.constructed + 1,
                                !.constructed = @ + 1, !.attempts = @ + 1],
          client |-> g.constructed + 1]
    ELSE [gateway |-> [g EXCEPT !.attempts = @ + 1], client |-> 0]

RECURSIVE Scan(_, _, _, _)
\* the for-of loop from candidate i up to the first candidate it hands to
\* uploadFile, to its end, or to a statSync that throws
Scan(name, paths, i, r) ==
    IF i > Len(paths) THEN [at |-> "return", idx |-> i, result |-> r]
    ELSE LET path == paths[i]
             st == statSync(path, fs)
         IN  IF name = "iagon_bulk_upload" /\ ~existsSync(path, fs)
             THEN Scan(name, paths, i + 1,
                       Record(r, Outcome(path, "failed", BatchNotFoundMessage, "")))
             ELSE IF ~st.exists
             THEN [at |-> "throw", idx |-> i, result |-> r]
             ELSE IF OverLimit(st.size)
             THEN Scan(name, paths, i + 1,
                       Record(r, Outcome(path, "skipped",
                                         BatchSkipMessage(st.size), "")))
             ELSE [at |-> "upload", idx |-> i, result |-> r]

\* the handler of run from candidate i on, with result r, up to its next
\* await (the POST of uploadFile is sent) or to its return
Advance(run, i, r, sent) ==
    LET s == Scan(run.tool, run.files, i, r)
        path == run.files[s.idx]
        size == statSync(path, fs).size
    IN  IF s.at = "return"
        THEN [run |-> [run EXCEPT !.pc = "done", !.idx = s.idx, !.result = s.result,
                                  !.response = [kind |-> "summary", isError |-> FALSE,
                                                summary |-> s.result, text |-> <<>>]],
              requests |-> sent]
        ELSE IF s.at = "throw"
        THEN [run |-> [run EXCEPT !.pc = "done", !.idx = s.idx, !.result = s.result,
                                  !.response = [kind |-> "error", isError |-> TRUE,
                                                summary |-> NoResult,
                                                text |-> <<"Error", ":">>
                                                    \o EnoentMessage(path)]],
              requests |-> sent]
        ELSE [run |-> [run EXCEPT !.pc = "await", !.idx = s.idx, !.result = s.result,
                                  !.stats = size,
                                  !.upload = [NoUpload EXCEPT
                                                !.localPath = path,
                                                !.fileName = basename(path),
                                                !.size = size]],
              requests |-> Append(sent, [path |-> path, fileName |-> basename(path),
                                         size |-> size, folderId |-> ""])]

\* the variables no step of the concurrent handlers changes
ConcurrentFrame ==
    /\ UNCHANGED <<fs, tool, pc, files, idx, result, stats, upload, response,
                   fsChanges>>
    /\ UNCHANGED <<pageVars, params, enum, calls, transfer>>

\* file_paths and local_directory of the concurrent calls
RunInputs ==
    {[tool |-> "iagon_bulk_upload", input |-> q] :
            q \in {<<"/data/a.mp4", "/data/c.mp4">>,
                   <<"/data/c.mp4", "/data/big.mp4", "/data/edge.mp4">>}}
        \cup {[tool |-> "iagon_upload_directory", input |-> d] :
                    d \in {"/data", "/empty"}}

\* what a directory upload returns before it asks for the gateway, if it does
DirectoryEarly(dir, found) ==
    IF ~existsSync(dir, fs)
    THEN [kind |-> "error", isError |-> TRUE, summary |-> NoResult,
          text |-> <<"Directory", "not", "found", ":", dir>>]
    ELSE IF dir \notin Directories
    THEN [kind |-> "error", isError |-> TRUE, summary |-> NoResult,
          text |-> <<"Path", "is", "not", "a", "directory", ":", dir>>]
    ELSE IF Len(found) = 0
    THEN [kind |-> "note", isError |-> FALSE, summary |-> NoResult,
          text |-> <<"No", "files", "found", "in", dir>>]
    ELSE NoResponse

\* a batch handler is called and runs up to its first await, or returns
RunStart(r, name, input) ==
    /\ runs[r].pc = "idle"
    /\ gateway.started < MaxStarted
    /\ LET paths == IF name = "iagon_bulk_upload" THEN input
                    ELSE getFilesFromDirectory(input, FALSE, NoPattern, fs)
           early == IF name = "iagon_bulk_upload" THEN NoResponse
                    ELSE DirectoryEarly(input, paths)
           got == getIagonClient(gateway, envToken)
           run == [NoRun EXCEPT !.tool = name, !.files = paths,
                                !.client = got.client,
                                !.result = [NoResult EXCEPT !.total = Len(paths)]]
           next == Advance(run, 1, run.result, requests)
       IN  IF early # NoResponse
           THEN /\ runs' = [runs EXCEPT ![r] = [NoRun EXCEPT !.tool = name,
                                                             !.pc = "done",
                                                             !.response = early]]
                /\ gateway' = [gateway EXCEPT !.started = @ + 1]
                /\ requests' = requests
           ELSE IF got.client = 0
           THEN /\ runs' = [runs EXCEPT ![r] =
                                [NoRun EXCEPT
                                    !.tool = name, !.pc = "done",
                                    !.response = [kind |-> "error", isError |-> TRUE,
                                                  summary |-> NoResult,
                                                  text |-> <<"Error", ":">>
                                                      \o TokenRequiredMessage]]]
                /\ gateway' = [got.gateway EXCEPT !.started = @ + 1]
                /\ requests' = requests
           ELSE /\ runs' = [runs EXCEPT ![r] = next.run]
                /\ gateway' = [got.gateway EXCEPT !.started = @ + 1]
                /\ requests' = next.requests
    /\ clientInstance' = (gateway'.instance # 0)
    /\ envToken' = envToken
    /\ ConcurrentFrame

\* the outcome recorded in the result of run 1, whichever run it belongs to
RunResume_SharedResult(r, answer) ==
    /\ runs[r].pc = "await"
    /\ LET run == runs[r]
           uploadResult ==
                IF answer.ok
                THEN UploadResult(TRUE,
                                  IF answer.id # "" THEN answer.id ELSE answer.fileId,
                                  run.upload.fileName, run.upload.size,
                                  UploadSuccessMessage(run.upload.fileName,
                                                       run.upload.size))
                ELSE UploadResult(FALSE, "", run.upload.fileName, run.upload.size,
                                  handleError(answer.error))
           shared == Record(runs[1].result,
                            BatchOutcome(run.files[run.idx], run.stats, uploadResult))
           next == Advance([run EXCEPT !.answers = Append(@, answer)],
                           run.idx + 1, shared, requests)
       IN  /\ runs' = [runs EXCEPT ![r] = next.run]
           /\ requests' = next.requests
    /\ UNCHANGED <<gateway, clientInstance, envToken>>
    /\ ConcurrentFrame

\* the POST of run r settles: uploadFile returns, the handler records the
\* outcome in its result and goes on to its next await or to its return
RunResume(r, answer) ==
    /\ runs[r].pc = "await"
    /\ LET run == runs[r]
           uploadResult ==
                IF answer.ok
                THEN UploadResult(TRUE,
                                  IF answer.id # "" THEN answer.id ELSE answer.fileId,
                                  run.upload.fileName, run.upload.size,
                                  UploadSuccessMessage(run.upload.fileName,
                                                       run.upload.size))
                ELSE UploadResult(FALSE, "", run.upload.fileName, run.upload.size,
                                  handleError(answer.error))
           own == Record(run.result,
                         BatchOutcome(run.files[run.idx], run.stats, uploadResult))
           next == Advance([run EXCEPT !.answers = Append(@, answer)],
                           run.idx + 1, own, requests)
       IN  /\ runs' = [runs EXCEPT ![r] = next.run]
           /\ requests' = next.requests
    /\ UNCHANGED <<gateway, clientInstance, envToken>>
    /\ ConcurrentFrame

\* the caller has the result of run r; another call can be made
RunOver(r) ==
    /\ runs[r].pc = "done"
    /\ gateway.started < MaxStarted
    /\ runs' = [runs EXCEPT ![r] = NoRun]
    /\ UNCHANGED <<gateway, clientInstance, envToken, requests>>
    /\ ConcurrentFrame

\* the environment variable is set or unset while the process runs
EnvChange ==
    /\ gateway.envChanges < MaxEnvChanges
    /\ envToken' = ~envToken
    /\ gateway' = [gateway EXCEPT !.envChanges = @ + 1]
    /\ UNCHANGED <<runs, clientInstance, requests>>
    /\ ConcurrentFrame

\* what the POST of a concurrent run settles with: both forms of success, a
\* rate limit, and the read error of a directory
RunAnswers(localPath) ==
    PostAnswers(localPath) \ {UploadFail(HttpError(413, <<>>)),
                              UploadFail(CodeError("ECONNABORTED"))}

ConcurrentNext ==
    \/ \E r \in RunIds, in \in RunInputs : RunStart(r, in.tool, in.input)
    \/ \E r \in RunIds :
            \E answer \in RunAnswers(runs[r].upload.localPath) : RunResume(r, answer)
    \/ \E r \in RunIds : RunOver(r)
    \/ EnvChange

ConcurrentSpec == Init /\ [][ConcurrentNext]_vars

-----------------------------------------------------------------------------
(* Properties of handlers in progress at the same time *)

\* a batch call that gets as far as getIagonClient()
AsksGateway(name, input) ==
    \/ name = "iagon_bulk_upload"
    \/ DirectoryEarly(input, getFilesFromDirectory(input, FALSE, NoPattern, fs))
            = NoResponse

C28_State ==
    /\ gateway.constructed <= 1
    /\ gateway.instance = gateway.constructed
    /\ clientInstance = (gateway.instance # 0)
    /\ \A r \in RunIds :
            /\ runs[r].client \in {0, gateway.instance}
            /\ (runs[r].pc = "await" \/ runs[r].response.kind = "summary")
                    => (runs[r].client # 0 /\ runs[r].client = gateway.instance)
C28_Call ==
    \A r \in RunIds, in \in RunInputs :
        (RunStart(r, in.tool, in.input) /\ AsksGateway(in.tool, in.input)) =>
            IF gateway.instance # 0
            THEN /\ gateway'.attempts = gateway.attempts
                 /\ gateway'.instance = gateway.instance
                 /\ runs'[r].client = gateway.instance
            ELSE /\ gateway'.attempts = gateway.attempts + 1
                 /\ IF envToken
                    THEN /\ gateway'.constructed = 1
                         /\ runs'[r].client = gateway'.instance
                    ELSE /\ gateway'.instance = 0
                         /\ runs'[r].client = 0
                         /\ runs'[r].response.isError
                         /\ requests' = requests

\* C28: over every sequence and interleaving of batch calls at most one
\* IagonClient is constructed, every call that gets a gateway gets that one
\* instance, and a construction that throws leaves the singleton unset, so
\* that the next call constructs again.
C28_Singleton == []C28_State /\ [][C28_Call]_vars

\* C28 witness: a first construction threw, a later call constructed the
\* instance, and two handlers in progress at the same time both hold it.
C28_Witness ==
    /\ gateway.attempts = 2
    /\ gateway.constructed = 1
    /\ \A r \in RunIds : runs[r].pc = "await" /\ runs[r].client = 1


RECURSIVE OwnOutcomes(_, _, _)
\* the outcomes a run owes to its own candidates: a function of each
\* candidate, in input order, and of the answers to the run's own uploads
OwnOutcomes(name, paths, answers) ==
    IF paths = <<>> THEN <<>>
    ELSE LET path == Head(paths)
             size == statSync(path, fs).size
         IN  IF name = "iagon_bulk_upload" /\ ~existsSync(path, fs)
             THEN <<Outcome(path, "failed", <<"File", "not", "found">>, "")>>
                      \o OwnOutcomes(name, Tail(paths), answers)
             ELSE IF size > FILE_SIZE_LIMIT
             THEN <<Outcome(path, "skipped",
                            <<"Exceeds", "40MB", "limit", "(", formatBytes(size), ")">>,
                            "")>>
                      \o OwnOutcomes(name, Tail(paths), answers)
             ELSE IF answers = <<>> THEN <<>>
             ELSE LET a == Head(answers)
                  IN  <<IF a.ok
                        THEN Outcome(path, "success",
                                     <<"Uploaded", "(", formatBytes(size), ")">>,
                                     IF a.id # "" THEN a.id ELSE a.fileId)
                        ELSE Outcome(path, "failed", handleError(a.error), "")>>
                          \o OwnOutcomes(name, Tail(paths), Tail(answers))

CountOf(results, status) ==
    Cardinality({i \in 1..Len(results) : results[i].status = status})

\* C29: when two batch calls are in progress at the same time, each run's
\* result holds the outcomes of its own candidates only, one for each in its
\* input order, and its counters count its own outcomes; the summary returned
\* holds exactly one outcome for each of the run's candidates.
C29_OwnResults ==
    \A r \in RunIds :
        LET run == runs[r]
            results == run.result.results
        IN  run.tool \in BatchTools =>
            /\ (run.pc = "await" \/ run.response.kind = "summary") =>
                    /\ results = OwnOutcomes(run.tool, run.files, run.answers)
                    /\ \A i \in 1..Len(results) : results[i].path = run.files[i]
                    /\ run.result.total = Len(run.files)
                    /\ run.result.successful = CountOf(results, "success")
                    /\ run.result.failed = CountOf(results, "failed")
                    /\ run.result.skipped = CountOf(results, "skipped")
            /\ run.response.kind = "summary" =>
                    /\ run.response.summary = run.result
                    /\ Len(results) = Len(run.files)

\* C29 witness: two runs over the same three candidates returned their
\* summaries after sending their uploads in turn, each with one skip and two
\* uploads, and with different outcomes.
C29_Witness ==
    /\ \A r \in RunIds : /\ runs[r].response.kind = "summary"
                         /\ Len(runs[r].answers) = 2
                         /\ runs[r].result.skipped = 1
    /\ runs[1].files = runs[2].files
    /\ runs[1].result # runs[2].result
    /\ Len(requests) = 4
    /\ requests[1].path = requests[2].path
    /\ requests[3].path = requests[4].path

====
